---- MODULE Spec2Model ----
(***************************************************************************)
(* TinkerBlocks program execution core.                                    *)
(*                                                                         *)
(*   Spec       the tree-walking interpreter (engine/executor.py,          *)
(*              engine/commands/*.py, engine/context.py) run by            *)
(*              engine_workflow on a parsed command tree, with the         *)
(*              cancellation probe and the host aborting the task.         *)
(*   FairSpec   the same interpreter without cancellation, with weak       *)
(*              fairness of the interpreter's steps (the event loop always *)
(*              resumes a runnable task).                                  *)
(*   ParseSpec  GridParser.parse (engine/parser.py), one row per step.     *)
(*   HostSpec   the WebSocket command handlers and ProcessController       *)
(*              (main.py, core/process_controller.py, core/ws_server.py).  *)
(*                                                                         *)
(* Time is counted in polling intervals of 100 ms (utility.py:114).        *)
(***************************************************************************)
EXTENDS Integers, Sequences, FiniteSets, TLC

VARIABLES
    \* ---- engine: ExecutionContext (context.py:54-81)
    commands,        \* the command list handed to Executor.execute
    max_steps,       \* ExecutionContext.max_steps
    steps_executed,  \* ExecutionContext.steps_executed
    variables,       \* ExecutionContext.variables
    pen_down,        \* ExecutionContext.pen_down
    path,            \* ExecutionContext.path
    position,        \* ExecutionContext.position
    direction,       \* ExecutionContext.direction
    hw_calls,        \* calls received by the HardwareInterface, in order
    hw_results,      \* what the hardware answered to each call that returned
    warnings,        \* the WARNING messages handed to send_message, in order
    \* ---- engine: position of the coroutine
    stack,           \* frames of the nested for-loops over command lists
    status,          \* where the execution task is
    elapsed,         \* polling intervals since the current WAIT started
    check_cancelled, \* value the cancellation probe returns
    since_cancel,    \* polling intervals since the probe turned true
    last,            \* command started / returned by the last step
    result,          \* what engine_workflow returned
    \* ---- parser: GridParser.parse (parser.py:41-149)
    grid,            \* the rows read so far, as given to GridParser
    nodes,           \* the Command object created for each row
    out_commands,    \* parse's `commands`: the top-level list
    scope_stack,     \* parse's `stack` of (column, command)
    in_else_block,   \* parse's in_else_block
    else_if_command, \* parse's else_if_command: a row number, 0 for None
    parse_state,     \* "parsing", "done" or the error raised
    rows,            \* GridParser.rows: the number of rows of the grid
    parse_error,     \* what the ValueError raised by parse is about
    \* ---- host: ProcessController (process_controller.py:21-25) and the
    \* ---- WebSocket connection handlers (ws_server.py:37-62)
    handler_pc,      \* per client: where its connection handler is
    handler_workflow,\* per client: the workflow its run command names
    handler_task,    \* per client: the task its run_workflow awaits, 0 for none
    tasks,           \* state of each workflow task created so far
    current_task,    \* ProcessController._current_task: a task number, 0 for None
    cancellation_requested, \* ProcessController._cancellation_requested
    last_result,     \* ProcessController._last_result: the task it came from
    run_returned,    \* per client: what its last run_workflow call returned
    stop_seen,       \* per client: a stop command was handled since its run was accepted
    sent,            \* the last message handed to send_message
    \* ---- WebSocket server (ws_server.py:6, 16-34)
    connected_clients, \* the set connected_clients
    client_order,    \* the order in which that set is iterated now
    closed,          \* clients whose connection is closed
    received,        \* per client: the messages handed to its connection, in order
    emitted,         \* the level of each message given to broadcast, in call order
    loops,           \* per broadcast call: its caller, its copy of the set, its place
    senders,         \* per client: the broadcast calls waiting in client.send
    \* ---- expressions: the parse_args of a command (control.py:166-177,
    \* ---- utility.py:21-46, movement.py:20-48, 103-159)
    tokens,          \* the argument tokens handed to parse_args
    condition,       \* the condition or while_condition it stored, NoValue for None
    \* ---- assistant: the execute_program tool (assistant/tools.py:62-137)
    tool_reply       \* what the tool returned, "" before it was called

engine_vars == <<commands, max_steps, steps_executed, variables, pen_down,
                 path, position, direction, hw_calls, hw_results, warnings,
                 stack, status, elapsed, check_cancelled, since_cancel, last,
                 result>>

parse_vars == <<grid, nodes, out_commands, scope_stack, in_else_block,
                else_if_command, parse_state, rows, parse_error>>

host_vars == <<handler_pc, handler_workflow, handler_task, tasks, current_task,
               cancellation_requested, last_result, run_returned, stop_seen,
               sent>>

ws_vars == <<connected_clients, client_order, closed, received, emitted, loops,
             senders>>

expr_vars == <<tokens, condition>>

tool_vars == <<tool_reply>>

not_engine_vars == <<parse_vars, host_vars, ws_vars, expr_vars, tool_vars>>

not_parse_vars == <<engine_vars, host_vars, ws_vars, expr_vars, tool_vars>>

not_host_vars == <<engine_vars, parse_vars, ws_vars, expr_vars, tool_vars>>

not_ws_vars == <<engine_vars, parse_vars, host_vars, expr_vars, tool_vars>>

not_expr_vars == <<engine_vars, parse_vars, host_vars, ws_vars, tool_vars>>

not_tool_vars == <<engine_vars, parse_vars, host_vars, ws_vars, expr_vars>>

vars == <<engine_vars, parse_vars, host_vars, ws_vars, expr_vars, tool_vars>>

-----------------------------------------------------------------------------
(* Bounds of the model *)

MaxBudget == 3      \* step budgets 1..MaxBudget are explored
MaxSince == 3       \* since_cancel is not counted beyond this
MaxRows == 4        \* rows of a grid
MaxIndent == 2      \* deepest column at which a row starts
MaxClients == 2     \* WebSocket clients
MaxMessages == 3    \* messages given to broadcast
MaxTokens == 5      \* tokens of an expression, all token lists up to it are parsed
MaxTasks == 3       \* workflow tasks created in one run of the host
MaxWorkflowRows == 3 \* rows of a grid that is parsed and then executed
MaxCount == 3       \* largest count of a LOOP n whose iterations are counted
MaxDegrees == 450   \* largest angle, either way, handed to ExecutionContext.turn

\* ExecutionContext.max_steps of a fresh context (context.py:71)
DefaultMaxSteps == 10000

-----------------------------------------------------------------------------
(* Values (engine/values/types.py, engine/values/expression.py) *)

NoValue == [t |-> "none", n |-> 0, b |-> FALSE, name |-> "", op |-> "", args |-> <<>>]

NumberValue(n) == [NoValue EXCEPT !.t = "num", !.n = n]

BooleanValue(b) == [NoValue EXCEPT !.t = "bool", !.b = b]

VariableValue(name) == [NoValue EXCEPT !.t = "var", !.name = name]

Expression(l, op, r) == [NoValue EXCEPT !.t = "expr", !.op = op, !.args = <<l, r>>]

\* a Python number or bool
PyNum(n) == [t |-> "num", n |-> n, b |-> FALSE]

\* the ValueError an evaluation raises instead of returning (expression.py:89-90)
DivisionByZero == [t |-> "err", n |-> 0, b |-> FALSE]

PyBool(b) == [t |-> "bool", n |-> 0, b |-> b]

\* Expression._to_number: a bool counts as 1 or 0
to_number(x) == IF x.t = "bool" THEN (IF x.b THEN 1 ELSE 0) ELSE x.n

\* Python truthiness of a number or bool
truthy(x) == IF x.t = "bool" THEN x.b ELSE x.n # 0

get_variable(vs, name) == IF name \in DOMAIN vs THEN vs[name] ELSE PyNum(0)

RECURSIVE evaluate(_, _)
evaluate(v, vs) ==
    CASE v.t = "num" -> PyNum(v.n)
      [] v.t = "bool" -> PyBool(v.b)
      [] v.t = "var" -> get_variable(vs, v.name)
      [] v.t = "expr" ->
            LET l == evaluate(v.args[1], vs)
                r == evaluate(v.args[2], vs)
            IN  CASE l.t = "err" \/ r.t = "err" -> DivisionByZero
                  [] v.op = "+" -> PyNum(to_number(l) + to_number(r))
                  [] v.op = "<" -> PyBool(to_number(l) < to_number(r))
                  [] v.op = ">" -> PyBool(to_number(l) > to_number(r))
                  [] v.op = "/" ->
                        IF to_number(r) = 0 THEN DivisionByZero
                        ELSE PyNum(to_number(l) \div to_number(r))
                  [] OTHER -> PyNum(0)
      [] OTHER -> PyNum(0)

-----------------------------------------------------------------------------
(* Parsing values and expressions (engine/values/base.py,
   engine/values/expression.py) *)

SensorValue(name) == [NoValue EXCEPT !.t = "sensor", !.name = name]

DirectionValue(name) == [NoValue EXCEPT !.t = "direction", !.name = name]

\* str.upper() on the tokens that have lower-case letters
token_upper(token) ==
    CASE token = "and" -> "AND"
      [] token = "or" -> "OR"
      [] token = "not" -> "NOT"
      [] token = "x" -> "X"
      [] token = "true" -> "TRUE"
      [] token = "while" -> "WHILE"
      [] token = "wait" -> "WAIT"
      [] token = "move" -> "MOVE"
      [] token = "turn" -> "TURN"
      [] token = "left" -> "LEFT"
      [] token = "right" -> "RIGHT"
      [] token = "obstacle" -> "OBSTACLE"
      [] token = "distance" -> "DISTANCE"
      [] OTHER -> token

\* int(token) for the tokens it accepts (base.py:39-45)
int_of == [t \in {"0", "1", "2", "5", "10", "-5"} |->
              CASE t = "0" -> 0 [] t = "1" -> 1 [] t = "2" -> 2
                [] t = "5" -> 5 [] t = "10" -> 10 [] t = "-5" -> 0 - 5]

\* str.isalpha(): every character is a letter
isalpha(token) ==
    token_upper(token) \in {"A", "B", "C", "X", "Y", "AND", "OR", "NOT", "TRUE",
                            "FALSE", "LEFT", "RIGHT", "FORWARD", "BACKWARD",
                            "DISTANCE", "OBSTACLE", "WHILE", "WAIT", "MOVE", "TURN"}

\* ValueParser.parse (base.py:25-67)
ValueParser_parse(token) ==
    LET upper_token == token_upper(token)
    IN  CASE token \in DOMAIN int_of -> NumberValue(int_of[token])
          [] upper_token \in {"TRUE", "FALSE"} -> BooleanValue(upper_token = "TRUE")
          [] upper_token \in {"LEFT", "RIGHT", "FORWARD", "BACKWARD"} ->
                DirectionValue(upper_token)
          [] upper_token \in {"DISTANCE", "OBSTACLE", "BLACK_DETECTED", "BLACK_LOST"} ->
                SensorValue(upper_token)
          [] OTHER -> IF isalpha(token) THEN VariableValue(upper_token) ELSE NoValue

\* the operators each loop of parse_tokens looks for (expression.py:227,
\* 236, 253), in the order of the loops
LogicalOperators == {"AND", "OR"}

ComparisonOperators == {"<", "<=", ">", ">=", "=", "!=", "=="}

\* a last loop that looks for + and - only
ArithmeticOperators_additive == {"+", "-"}

ArithmeticOperators == {"+", "-", "*", "/"}

\* the OperatorType a token stands for (expression.py:231, 240-248, 257-262):
\* "=" and "==" are both EQUAL
op_map(token) ==
    CASE token_upper(token) \in LogicalOperators -> token_upper(token)
      [] token = "==" -> "="
      [] OTHER -> token

\* t.strip() is empty (expression.py:208)
blank(token) == token \in {"", " "}

RECURSIVE parse_tokens(_)

\* one `for i, token in enumerate(tokens)` loop: the first index whose token
\* is one of `operators` and whose two sides both parse, 0 when the loop ends
\* without returning
first_split_rightmost(ts, operators, fold) ==
    LET at == {i \in 1..Len(ts) :
                  /\ (IF fold THEN token_upper(ts[i]) ELSE ts[i]) \in operators
                  /\ parse_tokens(SubSeq(ts, 1, i - 1)) # NoValue
                  /\ parse_tokens(SubSeq(ts, i + 1, Len(ts))) # NoValue}
    IN  IF at = {} THEN 0 ELSE CHOOSE i \in at : \A j \in at : j <= i

first_split(ts, operators, fold) ==
    LET at == {i \in 1..Len(ts) :
                  /\ (IF fold THEN token_upper(ts[i]) ELSE ts[i]) \in operators
                  /\ parse_tokens(SubSeq(ts, 1, i - 1)) # NoValue
                  /\ parse_tokens(SubSeq(ts, i + 1, Len(ts))) # NoValue}
    IN  IF at = {} THEN 0 ELSE CHOOSE i \in at : \A j \in at : i <= j

\* Expression(left, op, right) of the split at index i
split_at(ts, i) ==
    Expression(parse_tokens(SubSeq(ts, 1, i - 1)), op_map(ts[i]),
               parse_tokens(SubSeq(ts, i + 1, Len(ts))))

\* ValueParser.parse(" ".join(tokens)) for two or more non-blank tokens
\* (expression.py:272): the text has a blank inside, so it is no number, no
\* special word and not alphabetic
parse_joined(ts) == IF Len(ts) = 1 THEN ValueParser_parse(ts[1]) ELSE NoValue

\* ExpressionParser.parse_tokens (expression.py:194-284)
parse_tokens(given) ==
    LET ts == SelectSeq(given, LAMBDA t : ~blank(t))
    IN  IF ts = << >> THEN NoValue
        ELSE IF Len(ts) = 1 THEN ValueParser_parse(ts[1])
        ELSE LET logical == first_split(ts, LogicalOperators, TRUE)
             IN  IF logical # 0 THEN split_at(ts, logical)
                 ELSE LET comparison == first_split(ts, ComparisonOperators, FALSE)
                      IN  IF comparison # 0 THEN split_at(ts, comparison)
                          ELSE LET arithmetic == first_split(ts, ArithmeticOperators, FALSE)
                               IN  IF arithmetic # 0 THEN split_at(ts, arithmetic)
                                   ELSE IF /\ token_upper(ts[1]) = "NOT"
                                           /\ Len(ts) > 1
                                           /\ parse_tokens(Tail(ts)) # NoValue
                                        THEN Expression(parse_tokens(Tail(ts)), "NOT", NoValue)
                                        ELSE parse_joined(ts)

-----------------------------------------------------------------------------
(* Commands (engine/commands/*.py) *)

NoCommand == [op |-> "NONE", name |-> "", val |-> NoValue,
              nested_commands |-> <<>>, else_commands |-> <<>>]

SetCommand(name, v) == [NoCommand EXCEPT !.op = "SET", !.name = name, !.val = v]

MoveCommand(v) == [NoCommand EXCEPT !.op = "MOVE", !.val = v]

TurnCommand(v) == [NoCommand EXCEPT !.op = "TURN", !.val = v]

PenDownCommand == [NoCommand EXCEPT !.op = "PEN_DOWN"]

PenUpCommand == [NoCommand EXCEPT !.op = "PEN_UP"]

AlertOnCommand == [NoCommand EXCEPT !.op = "ALERT_ON"]

AlertOffCommand == [NoCommand EXCEPT !.op = "ALERT_OFF"]

WaitCommand(v) == [NoCommand EXCEPT !.op = "WAIT", !.val = v]

LoopCommand(v, body) == [NoCommand EXCEPT !.op = "LOOP", !.val = v, !.nested_commands = body]

WhileCommand(v, body) == [NoCommand EXCEPT !.op = "WHILE", !.val = v, !.nested_commands = body]

IfCommand(v, body, els) ==
    [NoCommand EXCEPT !.op = "IF", !.val = v, !.nested_commands = body, !.else_commands = els]

-----------------------------------------------------------------------------
(* Programs explored: the trees GridParser builds from small grids *)

IncX == SetCommand("X", Expression(VariableValue("X"), "+", NumberValue(1)))

\* step-consuming and step-free leaves
Leaves == {IncX, MoveCommand(NumberValue(1)), TurnCommand(NumberValue(90)),
           PenDownCommand, WaitCommand(NumberValue(2)), AlertOnCommand}

Bodies == {<<>>} \cup {<<c>> : c \in Leaves}
             \cup {<<IncX, c>> : c \in {IncX, PenDownCommand, WaitCommand(NumberValue(2))}}
             \cup {<<IfCommand(BooleanValue(TRUE), <<IncX>>, <<>>)>>,
                   <<IfCommand(Expression(VariableValue("X"), "<", NumberValue(1)),
                               <<IncX>>, <<PenUpCommand>>)>>}

XLessThan2 == Expression(VariableValue("X"), "<", NumberValue(2))

Controls ==
    UNION {{LoopCommand(BooleanValue(TRUE), b),
            LoopCommand(NumberValue(2), b),
            WhileCommand(BooleanValue(TRUE), b),
            WhileCommand(XLessThan2, b)} : b \in Bodies}
    \cup {LoopCommand(BooleanValue(FALSE), <<IncX>>),
          LoopCommand(NumberValue(5), <<IncX>>),
          IfCommand(BooleanValue(FALSE), <<IncX>>, <<AlertOffCommand, IncX>>),
          IfCommand(BooleanValue(TRUE), <<IncX, PenDownCommand>>, <<>>)}

Programs ==
    {<<c>> : c \in Controls}
    \cup {<<c, IncX>> : c \in Controls}
    \cup {<<PenDownCommand, c>> : c \in Controls}
    \cup {<<IncX, IncX, IncX, IncX, IncX>>,
          <<WaitCommand(NumberValue(3)), MoveCommand(NumberValue(1))>>,
          <<WaitCommand(NumberValue(0)), PenUpCommand>>,
          <<>>}

-----------------------------------------------------------------------------
(* Programs of the test suite (engine/tests) *)

GreaterThan(name, n) == Expression(VariableValue(name), ">", NumberValue(n))

\* test_nested_if_else.py:20-36, 60-76, with A set to a
NestedIfProgram(a) ==
    <<SetCommand("A", NumberValue(a)),
      SetCommand("B", NumberValue(5)),
      SetCommand("C", NumberValue(3)),
      IfCommand(GreaterThan("A", 5),
                <<MoveCommand(NumberValue(1)),
                  IfCommand(GreaterThan("B", 3),
                            <<MoveCommand(NumberValue(2)),
                              IfCommand(GreaterThan("C", 2),
                                        <<MoveCommand(NumberValue(3))>>,
                                        <<MoveCommand(NumberValue(-3))>>)>>,
                            <<MoveCommand(NumberValue(-2))>>)>>,
                <<MoveCommand(NumberValue(-1))>>)>>

\* test_engine_e2e.py: SET SIDE 3, SET COUNT 4, PEN_DOWN,
\* LOOP COUNT [MOVE SIDE, TURN RIGHT], PEN_UP
SquareProgram ==
    <<SetCommand("SIDE", NumberValue(3)),
      SetCommand("COUNT", NumberValue(4)),
      PenDownCommand,
      LoopCommand(VariableValue("COUNT"),
                  <<MoveCommand(VariableValue("SIDE")), TurnCommand(NumberValue(90))>>),
      PenUpCommand>>

\* MOVE, MOVE, TURN RIGHT, MOVE, TURN LEFT, MOVE, MOVE
MoveTurnProgram ==
    <<MoveCommand(NumberValue(1)), MoveCommand(NumberValue(1)),
      TurnCommand(NumberValue(90)), MoveCommand(NumberValue(1)),
      TurnCommand(NumberValue(-90)), MoveCommand(NumberValue(1)),
      MoveCommand(NumberValue(1))>>

\* test_engine_e2e.py:437-465: TURN 45, TURN LEFT 30, TURN RIGHT 60
TurnProgram ==
    <<TurnCommand(NumberValue(45)), TurnCommand(NumberValue(-30)),
      TurnCommand(NumberValue(60))>>

\* an optional PEN_DOWN, an optional TURN, then two MOVEs
PenMovePrograms ==
    {pen \o trn \o <<MoveCommand(NumberValue(d)), MoveCommand(NumberValue(1))>> :
        pen \in {<< >>, <<PenDownCommand>>},
        trn \in {<< >>, <<TurnCommand(NumberValue(90))>>, <<TurnCommand(NumberValue(180))>>},
        d \in {1, 2}}

Examples ==
    {NestedIfProgram(10), NestedIfProgram(2), SquareProgram, MoveTurnProgram,
     TurnProgram}
    \cup PenMovePrograms

-----------------------------------------------------------------------------
(* The coroutine's position: one frame per active `for command in ...` *)

\* kind: "top"  Executor.execute's loop        (executor.py:57)
\*       "inf"  LOOP TRUE                      (control.py:61)
\*       "for"  LOOP n, `left` iterations left (control.py:77)
\*       "while" WHILE                         (control.py:126)
\*       "if"   IF / ELSE block                (control.py:206)
Frame(kind, cmds, left, owner) ==
    [kind |-> kind, cmds |-> cmds, i |-> 1, left |-> left, owner |-> owner]

Top == stack[Len(stack)]

AtCommand == status = "running" /\ Top.i <= Len(Top.cmds)

AtEnd == status = "running" /\ Top.i > Len(Top.cmds)

Cur == Top.cmds[Top.i]

Advance(s) == [s EXCEPT ![Len(s)].i = @ + 1]

Pop(s) == SubSeq(s, 1, Len(s) - 1)

\* ExecutionContext.variables starts as an empty dict (context.py:63)
NoVariables == [x \in {} |-> PyNum(0)]

NoEvent == [started |-> "", returned |-> ""]

\* the command name and the GridPosition a ValueError of the parser names
\* (parser.py:105-107, 123-125)
Place(name, row_idx, col) == [name |-> name, row |-> row_idx, col |-> col]

NoPlace == Place("", -1, -1)

\* commands_parsed = -1 stands for a dictionary without that key
NoResult == [success |-> FALSE, error |-> "(pending)", about |-> NoPlace,
             commands_parsed |-> -1]

\* engine_workflow's return value (workflow.py:120-125, 127-140); a
\* CancelledError is not an Exception and leaves engine_workflow unreturned
SuccessResult == [success |-> TRUE, error |-> "None", about |-> NoPlace,
                  commands_parsed |-> -1]

\* an error result that still reports a command count
ErrorResult_with_count(msg) == [success |-> FALSE, error |-> msg, about |-> NoPlace,
                                commands_parsed |-> 0]

\* the dictionary of the `except Exception` branch (workflow.py:127-140)
ErrorResult(msg) == [success |-> FALSE, error |-> msg, about |-> NoPlace,
                     commands_parsed |-> -1]

Running == status \in {"running", "hw", "waiting", "sleeping", "yielding"}

\* GridParser.parse before the first row (parser.py:47-50)
ParseInit ==
    /\ parse_error = NoPlace
    /\ grid = << >>
    /\ nodes = << >>
    /\ out_commands = << >>
    /\ scope_stack = << >>
    /\ in_else_block = FALSE
    /\ else_if_command = 0
    /\ parse_state = "parsing"
    /\ tokens = << >>
    /\ condition = NoValue

Clients == 1..MaxClients

\* ProcessController.__init__ (process_controller.py:21-25); every connection
\* handler waits for a message (ws_server.py:42)
HostInit ==
    /\ handler_pc = [c \in Clients |-> "idle"]
    /\ handler_workflow = [c \in Clients |-> ""]
    /\ handler_task = [c \in Clients |-> 0]
    /\ tasks = << >>
    /\ current_task = 0
    /\ cancellation_requested = FALSE
    /\ last_result = 0
    /\ run_returned = [c \in Clients |-> << >>]
    /\ stop_seen = [c \in Clients |-> FALSE]
    /\ sent = ""
    /\ connected_clients = {}
    /\ client_order = << >>
    /\ closed = {}
    /\ received = [c \in Clients |-> << >>]
    /\ emitted = << >>
    /\ loops = << >>
    /\ senders = [c \in Clients |-> << >>]
    /\ tool_reply = ""

\* no execution has started
EngineIdle ==
    /\ commands = << >>
    /\ max_steps = 1
    /\ steps_executed = 0
    /\ variables = NoVariables
    /\ pen_down = FALSE
    /\ path = << >>
    /\ position = <<0, 0>>
    /\ direction = "forward"
    /\ hw_calls = << >>
    /\ hw_results = << >>
    /\ warnings = << >>
    /\ stack = << >>
    /\ status = "idle"
    /\ elapsed = 0
    /\ check_cancelled = FALSE
    /\ since_cancel = 0
    /\ last = NoEvent
    /\ result = NoResult

EngineInit ==
    /\ commands \in Programs
    /\ max_steps \in 1..MaxBudget
    /\ steps_executed = 0
    /\ variables = NoVariables
    /\ pen_down = FALSE
    /\ path = << >>
    /\ position = <<0, 0>>
    /\ direction = "forward"
    /\ hw_calls = << >>
    /\ hw_results = << >>
    /\ warnings = << >>
    /\ stack = <<Frame("top", commands, 0, NoCommand)>>
    /\ status = "running"
    /\ elapsed = 0
    /\ check_cancelled = FALSE
    /\ since_cancel = 0
    /\ last = NoEvent
    /\ result = NoResult
    /\ ParseInit
    /\ rows = 0
    /\ HostInit

\* the command about to start may start: Executor.execute probes
\* check_cancelled before each top-level command only (executor.py:59)
MayStart(op) ==
    /\ AtCommand
    /\ Cur.op = op
    /\ (Top.kind = "top" => ~check_cancelled)

\* an exception leaves every frame: Executor re-raises (executor.py:67-70),
\* engine_workflow turns it into an error result (workflow.py:127-140)
Raise(msg) ==
    /\ status' = "raised"
    /\ result' = ErrorResult(msg)

-----------------------------------------------------------------------------
(* ExecutionContext operations (engine/context.py) *)

\* set_variable (context.py:209-213): the counter is bumped without any check
set_variable(vs, name, value) ==
    [x \in DOMAIN vs \cup {name} |-> IF x = name THEN value ELSE vs[x]]

\* increment_steps (context.py:263-267): TRUE when it raises
increment_raises == steps_executed + 1 > max_steps

\* PenDownCommand.execute's path update (drawing.py:77-78)
start_tracking(p, pos) ==
    IF Len(p) = 0 \/ p[Len(p)] # pos THEN Append(p, pos) ELSE p

-----------------------------------------------------------------------------
(* Executor.execute (engine/executor.py:56-72) *)

\* the probe returned true before a top-level command: break, return context
ExecutorCancelled ==
    /\ AtCommand
    /\ Top.kind = "top"
    /\ check_cancelled
    /\ status' = "returned"
    /\ result' = [SuccessResult EXCEPT !.commands_parsed = Len(commands)]
    /\ last' = NoEvent
    /\ UNCHANGED <<not_engine_vars, commands, max_steps, steps_executed, variables, pen_down, path,
                   position, direction, hw_calls, hw_results, warnings, stack, elapsed, check_cancelled,
                   since_cancel>>

\* the command list is exhausted: return context
ExecutorReturn ==
    /\ AtEnd
    /\ Top.kind = "top"
    /\ status' = "returned"
    /\ result' = [SuccessResult EXCEPT !.commands_parsed = Len(commands)]
    /\ last' = NoEvent
    /\ UNCHANGED <<not_engine_vars, commands, max_steps, steps_executed, variables, pen_down, path,
                   position, direction, hw_calls, hw_results, warnings, stack, elapsed, check_cancelled,
                   since_cancel>>

-----------------------------------------------------------------------------
(* Leaf commands *)

\* SetCommand.execute (variable.py:42-87) with set_variable
ExecSet ==
    /\ MayStart("SET")
    /\ variables' = set_variable(variables, Cur.name, evaluate(Cur.val, variables))
    /\ steps_executed' = steps_executed + 1
    /\ stack' = Advance(stack)
    /\ last' = [started |-> "SET", returned |-> "SET"]
    /\ UNCHANGED <<not_engine_vars, commands, max_steps, pen_down, path, position, direction,
                   hw_calls, hw_results, warnings, status, elapsed, check_cancelled, since_cancel, result>>

\* MoveCommand.execute (movement.py:77-83): the distance is evaluated and
\* context.move(...) is called without await, so the coroutine it returns is
\* dropped and nothing of ExecutionContext.move runs
ExecMove ==
    /\ MayStart("MOVE")
    /\ stack' = Advance(stack)
    /\ last' = [started |-> "MOVE", returned |-> "MOVE"]
    /\ UNCHANGED <<not_engine_vars, commands, max_steps, steps_executed, variables, pen_down, path,
                   position, direction, hw_calls, hw_results, warnings, status, elapsed, check_cancelled,
                   since_cancel, result>>

\* TurnCommand.execute (movement.py:198-205): context.turn(...) likewise is
\* called without await
ExecTurn ==
    /\ MayStart("TURN")
    /\ stack' = Advance(stack)
    /\ last' = [started |-> "TURN", returned |-> "TURN"]
    /\ UNCHANGED <<not_engine_vars, commands, max_steps, steps_executed, variables, pen_down, path,
                   position, direction, hw_calls, hw_results, warnings, status, elapsed, check_cancelled,
                   since_cancel, result>>

\* a command that reports the failure at no level
HardwareWarning_unlogged(op) == ""

\* the WARNING a command sends when its hardware call reports failure
\* (drawing.py:31-34, 69-72; alert.py:31-34, 66-69)
HardwareWarning(op) ==
    IF op \in {"PEN_DOWN", "PEN_UP"}
      THEN "Hardware pen control failed"
      ELSE "Hardware buzzer control failed"

HardwareCall(op) ==
    CASE op = "PEN_DOWN" -> "set_pen_down(True)"
      [] op = "PEN_UP" -> "set_pen_down(False)"
      [] op = "ALERT_ON" -> "control_buzzer(on)"
      [] op = "ALERT_OFF" -> "control_buzzer(off)"

\* PenUp/PenDown/AlertOn/AlertOff up to the awaited hardware call
\* (drawing.py:20-29, 58-67; alert.py:20-29, 55-64)
ExecHardware ==
    /\ \E op \in {"PEN_DOWN", "PEN_UP", "ALERT_ON", "ALERT_OFF"} : MayStart(op)
    /\ hw_calls' = Append(hw_calls, HardwareCall(Cur.op))
    /\ status' = "hw"
    /\ last' = [started |-> Cur.op, returned |-> ""]
    /\ UNCHANGED <<not_engine_vars, commands, max_steps, steps_executed, variables, pen_down, path,
                   position, direction, hw_results, warnings, stack, elapsed, check_cancelled,
                   since_cancel, result>>

\* ... and from the hardware's answer on: whether it reports success or
\* failure the context is updated, then increment_steps, then (PEN_DOWN) the
\* path (drawing.py:35-36, 73-78; alert.py:35, 70)
HardwareReturn ==
    /\ status = "hw"
    /\ \E success \in BOOLEAN :
        /\ hw_results' = Append(hw_results, success)
        /\ warnings' = IF success THEN warnings
                                  ELSE Append(warnings, HardwareWarning(Cur.op))
        /\ pen_down' = CASE Cur.op = "PEN_DOWN" -> TRUE
                         [] Cur.op = "PEN_UP" -> FALSE
                         [] OTHER -> pen_down
        /\ steps_executed' = steps_executed + 1
        /\ IF increment_raises
             THEN /\ Raise("Maximum steps exceeded")
                  /\ last' = NoEvent
                  /\ UNCHANGED <<path, stack>>
             ELSE /\ path' = IF Cur.op = "PEN_DOWN"
                               THEN start_tracking(path, position) ELSE path
                  /\ stack' = Advance(stack)
                  /\ status' = "running"
                  /\ last' = [started |-> "", returned |-> Cur.op]
                  /\ UNCHANGED result
    /\ UNCHANGED <<not_engine_vars, commands, max_steps, variables, position, direction,
                   hw_calls, elapsed, check_cancelled, since_cancel>>

-----------------------------------------------------------------------------
(* WaitCommand.execute, timed form (utility.py:87-116) *)

ExecWait ==
    /\ MayStart("WAIT")
    /\ last' = [started |-> "WAIT", returned |-> ""]
    /\ IF to_number(evaluate(Cur.val, variables)) < 0
         THEN /\ Raise("Wait time must be positive")
              /\ UNCHANGED elapsed
         ELSE /\ status' = "waiting"
              /\ elapsed' = 0
              /\ UNCHANGED result
    /\ UNCHANGED <<not_engine_vars, commands, max_steps, steps_executed, variables, pen_down, path,
                   position, direction, hw_calls, hw_results, warnings, stack, check_cancelled, since_cancel>>

\* a polling loop that never consults the probe
wait_continues_ignoring_probe(e, wait_time, cancelled) == e < wait_time

\* the polling loop's test (utility.py:111-113): keep sleeping while the time
\* is not over and the probe is false
wait_continues(e, wait_time, cancelled) == e < wait_time /\ ~cancelled

WaitPoll ==
    /\ status = "waiting"
    /\ IF wait_continues(elapsed, to_number(evaluate(Cur.val, variables)), check_cancelled)
         THEN /\ status' = "sleeping"
              /\ last' = NoEvent
              /\ UNCHANGED <<steps_executed, stack, result>>
         ELSE /\ steps_executed' = steps_executed + 1
              /\ IF increment_raises
                   THEN /\ Raise("Maximum steps exceeded")
                        /\ last' = NoEvent
                        /\ UNCHANGED stack
                   ELSE /\ stack' = Advance(stack)
                        /\ status' = "running"
                        /\ last' = [started |-> "", returned |-> "WAIT"]
                        /\ UNCHANGED result
    /\ UNCHANGED <<not_engine_vars, commands, max_steps, variables, pen_down, path, position,
                   direction, hw_calls, hw_results, warnings, elapsed, check_cancelled, since_cancel>>

\* asyncio.sleep(0.1) runs out (utility.py:114)
WaitSleep ==
    /\ status = "sleeping"
    /\ status' = "waiting"
    /\ elapsed' = elapsed + 1
    /\ since_cancel' = IF check_cancelled /\ since_cancel < MaxSince
                         THEN since_cancel + 1 ELSE since_cancel
    /\ last' = NoEvent
    /\ UNCHANGED <<not_engine_vars, commands, max_steps, steps_executed, variables, pen_down, path,
                   position, direction, hw_calls, hw_results, warnings, stack, check_cancelled, result>>

-----------------------------------------------------------------------------
(* Control flow (engine/commands/control.py) *)

\* the runaway check at the end of an iteration (control.py:70, 150)
runaway(steps, budget) == steps > budget

\* LoopCommand.execute up to the first iteration (control.py:38-77)
ExecLoop ==
    /\ MayStart("LOOP")
    /\ LET count == evaluate(Cur.val, variables) IN
         IF count.t = "bool"
           THEN IF count.b
                  THEN /\ stack' = Append(stack, Frame("inf", Cur.nested_commands, 0, Cur))
                       /\ last' = [started |-> "LOOP", returned |-> ""]
                  ELSE /\ stack' = Advance(stack)
                       /\ last' = [started |-> "LOOP", returned |-> "LOOP"]
           ELSE IF count.n > 0
                  THEN /\ stack' = Append(stack, Frame("for", Cur.nested_commands, count.n, Cur))
                       /\ last' = [started |-> "LOOP", returned |-> ""]
                  ELSE /\ stack' = Advance(stack)
                       /\ last' = [started |-> "LOOP", returned |-> "LOOP"]
    /\ UNCHANGED <<not_engine_vars, commands, max_steps, steps_executed, variables, pen_down, path,
                   position, direction, hw_calls, hw_results, warnings, status, elapsed, check_cancelled,
                   since_cancel, result>>

\* the body of an iteration is exhausted: `await asyncio.sleep(0)`
\* (control.py:66-67, 82-83, 146-147)
LoopYield ==
    /\ AtEnd
    /\ Top.kind \in {"inf", "for", "while"}
    /\ status' = "yielding"
    /\ last' = NoEvent
    /\ UNCHANGED <<not_engine_vars, commands, max_steps, steps_executed, variables, pen_down, path,
                   position, direction, hw_calls, hw_results, warnings, stack, elapsed, check_cancelled,
                   since_cancel, result>>

\* the task is resumed after that sleep(0), in a loop of the given kind
AfterYield(kind) == status = "yielding" /\ Top.kind = kind

\* rest of an iteration of LOOP TRUE: the runaway check, then the body
\* again (control.py:61-71)
LoopTrueIteration ==
    /\ AfterYield("inf")
    /\ last' = NoEvent
    /\ IF runaway(steps_executed, max_steps)
         THEN /\ Raise("Maximum steps exceeded")
              /\ UNCHANGED stack
         ELSE /\ stack' = [stack EXCEPT ![Len(stack)].i = 1]
              /\ status' = "running"
              /\ UNCHANGED result
    /\ UNCHANGED <<not_engine_vars, commands, max_steps, steps_executed, variables, pen_down, path,
                   position, direction, hw_calls, hw_results, warnings, elapsed, check_cancelled, since_cancel>>

\* a LOOP n that returns after its first iteration
LoopCountIteration_once ==
    /\ AfterYield("for")
    /\ status' = "running"
    /\ stack' = Advance(Pop(stack))
    /\ last' = [started |-> "", returned |-> "LOOP"]
    /\ UNCHANGED <<not_engine_vars, commands, max_steps, steps_executed, variables, pen_down, path,
                   position, direction, hw_calls, hw_results, warnings, elapsed, check_cancelled,
                   since_cancel, result>>

\* rest of an iteration of LOOP n: next i of range(iterations) (control.py:77-83)
LoopCountIteration ==
    /\ AfterYield("for")
    /\ status' = "running"
    /\ IF Top.left > 1
         THEN /\ stack' = [stack EXCEPT ![Len(stack)].i = 1, ![Len(stack)].left = @ - 1]
              /\ last' = NoEvent
         ELSE /\ stack' = Advance(Pop(stack))
              /\ last' = [started |-> "", returned |-> "LOOP"]
    /\ UNCHANGED <<not_engine_vars, commands, max_steps, steps_executed, variables, pen_down, path,
                   position, direction, hw_calls, hw_results, warnings, elapsed, check_cancelled,
                   since_cancel, result>>

\* WhileCommand.execute up to the first iteration (control.py:115-144)
ExecWhile ==
    /\ MayStart("WHILE")
    /\ IF truthy(evaluate(Cur.val, variables))
         THEN /\ stack' = Append(stack, Frame("while", Cur.nested_commands, 0, Cur))
              /\ last' = [started |-> "WHILE", returned |-> ""]
         ELSE /\ stack' = Advance(stack)
              /\ last' = [started |-> "WHILE", returned |-> "WHILE"]
    /\ UNCHANGED <<not_engine_vars, commands, max_steps, steps_executed, variables, pen_down, path,
                   position, direction, hw_calls, hw_results, warnings, status, elapsed, check_cancelled,
                   since_cancel, result>>

\* rest of an iteration of WHILE: the runaway check, then the condition
\* again (control.py:149-151, 126-140)
WhileIteration ==
    /\ AfterYield("while")
    /\ IF runaway(steps_executed, max_steps)
         THEN /\ Raise("Maximum steps exceeded")
              /\ last' = NoEvent
              /\ UNCHANGED stack
         ELSE /\ IF truthy(evaluate(Top.owner.val, variables))
                   THEN /\ stack' = [stack EXCEPT ![Len(stack)].i = 1]
                        /\ last' = NoEvent
                   ELSE /\ stack' = Advance(Pop(stack))
                        /\ last' = [started |-> "", returned |-> "WHILE"]
              /\ status' = "running"
              /\ UNCHANGED result
    /\ UNCHANGED <<not_engine_vars, commands, max_steps, steps_executed, variables, pen_down, path,
                   position, direction, hw_calls, hw_results, warnings, elapsed, check_cancelled, since_cancel>>

\* IfCommand.execute up to the first command of the chosen list (control.py:184-213)
ExecIf ==
    /\ MayStart("IF")
    /\ last' = [started |-> "IF", returned |-> ""]
    /\ IF evaluate(Cur.val, variables) = DivisionByZero
         THEN /\ Raise("Division by zero")
              /\ UNCHANGED stack
         ELSE /\ stack' = Append(stack, Frame("if",
                              IF truthy(evaluate(Cur.val, variables))
                                THEN Cur.nested_commands ELSE Cur.else_commands,
                              0, Cur))
              /\ UNCHANGED <<status, result>>
    /\ UNCHANGED <<not_engine_vars, commands, max_steps, steps_executed, variables, pen_down, path,
                   position, direction, hw_calls, hw_results, warnings, elapsed, check_cancelled,
                   since_cancel>>

\* the chosen list of an IF is exhausted: IfCommand.execute returns
IfReturn ==
    /\ AtEnd
    /\ Top.kind = "if"
    /\ stack' = Advance(Pop(stack))
    /\ last' = [started |-> "", returned |-> "IF"]
    /\ UNCHANGED <<not_engine_vars, commands, max_steps, steps_executed, variables, pen_down, path,
                   position, direction, hw_calls, hw_results, warnings, status, elapsed, check_cancelled,
                   since_cancel, result>>

-----------------------------------------------------------------------------
(* The host: the cancellation probe and asyncio task cancellation *)

\* check_cancelled() starts to return true
SignalCancel ==
    /\ Running
    /\ ~check_cancelled
    /\ check_cancelled' = TRUE
    /\ last' = NoEvent
    /\ UNCHANGED <<not_engine_vars, commands, max_steps, steps_executed, variables, pen_down, path,
                   position, direction, hw_calls, hw_results, warnings, stack, status, elapsed,
                   since_cancel, result>>

\* the task is suspended in an await that yields to the event loop: a
\* hardware call, the WAIT's sleep, the sleep(0) that ends a loop iteration
Suspended == status \in {"hw", "sleeping", "yielding"}

\* Task.cancel() by the host (process_controller.py:70): CancelledError is
\* raised at the await; neither Executor.execute nor engine_workflow catches
\* it (both catch Exception), so engine_workflow returns nothing
Abort ==
    /\ Suspended
    /\ status' = "aborted"
    /\ last' = NoEvent
    /\ UNCHANGED <<not_engine_vars, commands, max_steps, steps_executed, variables, pen_down, path,
                   position, direction, hw_calls, hw_results, warnings, stack, elapsed, check_cancelled,
                   since_cancel, result>>

-----------------------------------------------------------------------------
(* Grid cells.  A cell's text is a word in some case style with some      *)
(* padding; strip, upper, lower and the alias table act on that.           *)

Cell(word, style, lead, trail) ==
    [word |-> word, style |-> style, lead |-> lead, trail |-> trail]

EmptyCell == Cell("", "lower", 0, 0)

\* str.strip()
strip(cell) == [cell EXCEPT !.lead = 0, !.trail = 0]

\* `if self.grid[row_idx][col_idx].strip()`: a non-empty string
non_empty(cell) == strip(cell).word # ""

\* str.upper()
upper(cell) == [cell EXCEPT !.style = "upper"]

\* COMMAND_MAPPINGS (mappings.py:12-18)
\* a table in which one alias leads to another
COMMAND_MAPPINGS_chained ==
    [w \in {"mov", "up", "pen_on"} |->
        CASE w = "mov" -> "up"
          [] w = "up" -> "move"
          [] w = "pen_on" -> "pen_down"]

\* COMMAND_MAPPINGS (mappings.py:12-18)
COMMAND_MAPPINGS ==
    [w \in {"mov", "pen_on", "pen_off", "black_on", "black_off"} |->
        CASE w = "mov" -> "move"
          [] w = "pen_on" -> "pen_down"
          [] w = "pen_off" -> "pen_up"
          [] w = "black_on" -> "black_detected"
          [] w = "black_off" -> "black_lost"]

\* a preprocessing that writes every word in lower case
preprocess_cell_lowering(cell) ==
    IF ~non_empty(cell) THEN cell
    ELSE [cell EXCEPT !.word = IF cell.word \in DOMAIN COMMAND_MAPPINGS
                                 THEN COMMAND_MAPPINGS[cell.word] ELSE cell.word,
                      !.style = "lower"]

\* preprocess_grid, one cell (mappings.py:39-73): the canonical word in the
\* original's case style (upper, title, otherwise as in the table) and padding
preprocess_cell(cell) ==
    IF ~non_empty(cell) THEN cell
    ELSE IF cell.word \in DOMAIN COMMAND_MAPPINGS
      THEN [cell EXCEPT !.word = COMMAND_MAPPINGS[cell.word],
                        !.style = IF cell.style \in {"upper", "title"}
                                    THEN cell.style ELSE "lower"]
      ELSE cell

\* preprocess_grid, one row (mappings.py:37-75)
preprocess_row(row) == [c \in 1..Len(row) |-> preprocess_cell(row[c])]

-----------------------------------------------------------------------------
(* Command registry (commands/__init__.py:26-38, base.py:53-99) *)

\* a registry that takes every word for a command
get_command_class_of_any_word(word) ==
    CASE word = "loop" -> "LoopCommand"
      [] word = "if" -> "IfCommand"
      [] word = "else" -> "ElseCommand"
      [] word = "pen_down" -> "PenDownCommand"
      [] OTHER -> "MoveCommand"

\* CommandRegistry.get_command_class, by the upper-cased name
get_command_class(word) ==
    CASE word = "move" -> "MoveCommand"
      [] word = "turn" -> "TurnCommand"
      [] word \in {"loop", "repeat", "for"} -> "LoopCommand"
      [] word = "while" -> "WhileCommand"
      [] word = "if" -> "IfCommand"
      [] word = "else" -> "ElseCommand"
      [] word \in {"set", "assign", "let"} -> "SetCommand"
      [] word \in {"pen_up", "penup", "up"} -> "PenUpCommand"
      [] word \in {"pen_down", "pendown", "down"} -> "PenDownCommand"
      [] word \in {"wait", "pause", "sleep", "delay"} -> "WaitCommand"
      [] word = "alert_on" -> "AlertOnCommand"
      [] word = "alert_off" -> "AlertOffCommand"
      [] OTHER -> "None"

\* parse_args of the classes the grids use: TRUE when it raises ValueError
\* (control.py:30-31, 108-109, 173-174, 230-231)
parse_args_raises(cls, args) ==
    \/ cls \in {"LoopCommand", "WhileCommand", "IfCommand"} /\ Len(args) = 0
    \/ cls = "ElseCommand" /\ Len(args) > 0

\* a Command object (base.py:12-20, control.py:165)
Node(cls, row_idx, col, args) ==
    [cls |-> cls, row |-> row_idx, col |-> col, args |-> args,
     nested_commands |-> << >>, else_commands |-> << >>]

NoNode == Node("None", 0, 0, << >>)

-----------------------------------------------------------------------------
(* Grids explored *)

Style(k) == CASE k % 3 = 0 -> "upper" [] k % 3 = 1 -> "lower" [] OTHER -> "title"

\* k leading cells that are empty, the first of them a blank with padding
Indent(k) == [c \in 1..k |-> IF c = 1 THEN Cell("", "lower", 1, 0) ELSE EmptyCell]

IfRow(k) == Indent(k) \o <<Cell("if", Style(k), 0, 0), Cell("true", "upper", 0, 0)>>

ElseRow(k) == Indent(k) \o <<Cell("else", Style(k), k % 2, 0)>>

\* MOVE, written with its alias at odd columns
MoveRow(k) == Indent(k) \o <<Cell(IF k % 2 = 1 THEN "mov" ELSE "move", Style(k), 0, 1)>>

LoopRow(k) == Indent(k) \o <<Cell("loop", "upper", 0, 0), Cell("2", "lower", 0, 0)>>

BlankRow == <<EmptyCell, Cell("", "lower", 2, 0)>>

\* a row without cells
NoCellsRow == << >>

\* PEN_DOWN, written with its alias
PenDownRow == <<Cell("pen_on", "upper", 0, 0)>>

\* a word that names no command
UnknownRow == <<Cell("jump", "upper", 0, 0)>>

\* IF without its condition
BareIfRow == <<Cell("if", "lower", 0, 0), EmptyCell>>

\* IF 1 / 0: parses, and fails when its condition is evaluated
DivideByZeroRow ==
    <<Cell("if", "upper", 0, 0), Cell("1", "upper", 0, 0), Cell("/", "upper", 0, 0),
      Cell("0", "upper", 0, 0)>>

RowShapes ==
    {BlankRow, NoCellsRow, LoopRow(0), PenDownRow, UnknownRow, BareIfRow, DivideByZeroRow}
    \cup {IfRow(k) : k \in 0..MaxIndent}
    \cup {ElseRow(k) : k \in 0..MaxIndent}
    \cup {MoveRow(k) : k \in 0..MaxIndent}

-----------------------------------------------------------------------------
(* GridParser.parse (parser.py:41-149), one row per step *)

\* the first non-empty cell of a row, 0-based; -1 for an empty row (parser.py:58-62)
first_non_empty(row) ==
    IF \E c \in 1..Len(row) : non_empty(row[c])
      THEN (CHOOSE c \in 1..Len(row) :
                /\ non_empty(row[c])
                /\ \A d \in 1..(c - 1) : ~non_empty(row[d])) - 1
      ELSE -1

\* the argument cells of a row (parser.py:86-97): the non-empty cells after
\* the command, up to the first one that names a command other than ELSE
RECURSIVE collect_args(_, _)
collect_args(row, c) ==
    IF c > Len(row) THEN << >>
    ELSE IF ~non_empty(row[c]) THEN collect_args(row, c + 1)
    ELSE IF upper(strip(row[c])).word # "else"
            /\ get_command_class(upper(strip(row[c])).word) # "None"
      THEN << >>
      ELSE <<strip(row[c])>> \o collect_args(row, c + 1)

Scope(col, id) == [col |-> col, id |-> id]

\* the loop that closes scopes (parser.py:67-82): pop the frames at the row's
\* column or deeper, but stop at an IF at exactly that column when the row
\* is ELSE; popping an ELSE marker leaves the ELSE block
RECURSIVE pop_scopes(_, _, _, _, _)

\* a loop that closes only the frames deeper than the row's column
pop_scopes_deeper_only(st, first_col, name, in_else, else_if) ==
    IF st = << >> \/ st[Len(st)].col <= first_col
      THEN [stack |-> st, in_else_block |-> in_else, else_if_command |-> else_if]
    ELSE LET popped == st[Len(st)] IN
           IF nodes[popped.id].cls = "ElseCommand"
             THEN pop_scopes(Pop(st), first_col, name, FALSE, 0)
             ELSE pop_scopes(Pop(st), first_col, name, in_else, else_if)

pop_scopes(st, first_col, name, in_else, else_if) ==
    IF st = << >> \/ st[Len(st)].col < first_col
      THEN [stack |-> st, in_else_block |-> in_else, else_if_command |-> else_if]
    ELSE IF /\ name = "else"
            /\ st[Len(st)].col = first_col
            /\ nodes[st[Len(st)].id].cls = "IfCommand"
      THEN [stack |-> st, in_else_block |-> in_else, else_if_command |-> else_if]
    ELSE LET popped == st[Len(st)] IN
           IF nodes[popped.id].cls = "ElseCommand"
             THEN pop_scopes(Pop(st), first_col, name, FALSE, 0)
             ELSE pop_scopes(Pop(st), first_col, name, in_else, else_if)

\* a search that takes any IF of the grid, open or closed
find_if_in_tree(st, i) ==
    IF \E id \in 1..Len(nodes) : nodes[id].cls = "IfCommand"
      THEN CHOOSE id \in 1..Len(nodes) : nodes[id].cls = "IfCommand"
      ELSE 0

\* the nearest IF on the stack, searched from the top (parser.py:113-120);
\* 0 when there is none
RECURSIVE find_if(_, _)
find_if(st, i) ==
    IF i = 0 THEN 0
    ELSE IF nodes[st[i].id].cls = "IfCommand" THEN st[i].id
    ELSE find_if(st, i - 1)

\* `hasattr(command, "nested_commands")` (parser.py:146): nested_commands is
\* a field of the Command base class, so every command has it
can_have_nested(cls) == TRUE

\* an empty row: `continue` (parser.py:64-65)
ParseEmptyRow ==
    /\ parse_state = "parsing"
    /\ Len(grid) < rows
    /\ \E raw \in RowShapes :
        /\ first_non_empty(preprocess_row(raw)) = -1
        /\ grid' = Append(grid, raw)
        /\ nodes' = Append(nodes, NoNode)
    /\ UNCHANGED <<out_commands, scope_stack, in_else_block, else_if_command,
                   parse_state, rows, parse_error, not_parse_vars>>

\* a row whose command cannot be created, or an ELSE with no IF on the
\* stack: parse raises (parser.py:99-107, 122-125)
ParseRowError ==
    /\ parse_state = "parsing"
    /\ Len(grid) < rows
    /\ \E raw \in RowShapes :
        LET row == preprocess_row(raw)
            first_col == first_non_empty(row)
            name == upper(strip(row[first_col + 1])).word
            cls == get_command_class(name)
            args == collect_args(row, first_col + 2)
            popped == pop_scopes(scope_stack, first_col, name, in_else_block,
                                 else_if_command)
        IN  /\ first_col # -1
            /\ \/ /\ cls = "None"
                  /\ parse_state' = "Unknown command"
                  /\ parse_error' = Place(name, Len(grid), first_col)
               \/ /\ cls # "None"
                  /\ parse_args_raises(cls, args)
                  /\ parse_state' = "Bad arguments"
                  /\ parse_error' = NoPlace
               \/ /\ cls = "ElseCommand"
                  /\ ~parse_args_raises(cls, args)
                  /\ find_if(popped.stack, Len(popped.stack)) = 0
                  /\ parse_state' = "ELSE without matching IF"
                  /\ parse_error' = Place("", Len(grid), first_col)
            /\ grid' = Append(grid, raw)
            /\ nodes' = Append(nodes, NoNode)
            /\ scope_stack' = popped.stack
            /\ in_else_block' = popped.in_else_block
            /\ else_if_command' = popped.else_if_command
    /\ UNCHANGED <<out_commands, rows, not_parse_vars>>

\* an ELSE row with an IF on the stack (parser.py:109-126): remember the IF,
\* push the ELSE marker, add nothing to the tree
ParseElseRow ==
    /\ parse_state = "parsing"
    /\ Len(grid) < rows
    /\ \E raw \in RowShapes :
        LET row == preprocess_row(raw)
            first_col == first_non_empty(row)
            name == upper(strip(row[first_col + 1])).word
            cls == get_command_class(name)
            args == collect_args(row, first_col + 2)
            popped == pop_scopes(scope_stack, first_col, name, in_else_block,
                                 else_if_command)
            found == find_if(popped.stack, Len(popped.stack))
            id == Len(grid) + 1
        IN  /\ first_col # -1
            /\ cls = "ElseCommand"
            /\ ~parse_args_raises(cls, args)
            /\ found # 0
            /\ grid' = Append(grid, raw)
            /\ nodes' = Append(nodes, Node(cls, id - 1, first_col, args))
            /\ else_if_command' = found
            /\ in_else_block' = TRUE
            /\ scope_stack' = Append(popped.stack, Scope(first_col, id))
    /\ UNCHANGED <<out_commands, parse_state, rows, parse_error, not_parse_vars>>

\* any other command row (parser.py:128-147): attach the command to the
\* frame on top of the stack, to the current ELSE block or to the top level,
\* then push it
ParseCommandRow ==
    /\ parse_state = "parsing"
    /\ Len(grid) < rows
    /\ \E raw \in RowShapes :
        LET row == preprocess_row(raw)
            first_col == first_non_empty(row)
            name == upper(strip(row[first_col + 1])).word
            cls == get_command_class(name)
            args == collect_args(row, first_col + 2)
            popped == pop_scopes(scope_stack, first_col, name, in_else_block,
                                 else_if_command)
            st == popped.stack
            id == Len(grid) + 1
            created == Append(nodes, Node(cls, id - 1, first_col, args))
        IN  /\ first_col # -1
            /\ cls \notin {"None", "ElseCommand"}
            /\ ~parse_args_raises(cls, args)
            /\ grid' = Append(grid, raw)
            /\ IF st # << >> /\ first_col > st[Len(st)].col
                 THEN LET parent == st[Len(st)].id IN
                      IF nodes[parent].cls = "ElseCommand"
                        THEN /\ nodes' =
                                  IF popped.in_else_block /\ popped.else_if_command # 0
                                    THEN [created EXCEPT
                                            ![popped.else_if_command].else_commands =
                                                Append(@, id)]
                                    ELSE created
                             /\ UNCHANGED out_commands
                        ELSE /\ nodes' = [created EXCEPT
                                            ![parent].nested_commands = Append(@, id)]
                             /\ UNCHANGED out_commands
                 ELSE IF popped.in_else_block /\ popped.else_if_command # 0 /\ st # << >>
                        THEN /\ nodes' = [created EXCEPT
                                            ![popped.else_if_command].else_commands =
                                                Append(@, id)]
                             /\ UNCHANGED out_commands
                        ELSE /\ nodes' = created
                             /\ out_commands' = Append(out_commands, id)
            /\ scope_stack' = IF can_have_nested(cls)
                                THEN Append(st, Scope(first_col, id)) ELSE st
            /\ in_else_block' = popped.in_else_block
            /\ else_if_command' = popped.else_if_command
    /\ UNCHANGED <<parse_state, rows, parse_error, not_parse_vars>>

\* the rows are exhausted: parse returns `commands` (parser.py:149)
ParseReturn ==
    /\ parse_state = "parsing"
    /\ Len(grid) = rows
    /\ parse_state' = "done"
    /\ UNCHANGED <<grid, nodes, out_commands, scope_stack, in_else_block,
                   else_if_command, rows, parse_error, not_parse_vars>>

-----------------------------------------------------------------------------
(* The host: handle_run_command (main.py:17-123) and                       *)
(* ProcessController.run_workflow (process_controller.py:27-63).  A handler *)
(* runs until its next await; the handlers of different connections and    *)
(* the workflow tasks interleave at those points.                          *)

WorkflowNames == {"ocr_grid", "engine", "full", "assistant"}

\* calling the workflow lambda raises TypeError: main.py passes no
\* check_cancelled to ocr_grid_workflow and engine_workflow, which require it
\* (main.py:35-38, 73-77, 84-88; vision/workflow.py:15-19; engine/workflow.py:9-14)
workflow_call_raises(wf) == wf \in {"ocr_grid", "engine", "full"}

\* ProcessController.is_running (process_controller.py:85-88)
is_running == current_task # 0 /\ tasks[current_task] \in {"pending", "cancelling"}

\* a run command while is_running (main.py:25-27)
HandleRunRejected(c) ==
    /\ handler_pc[c] = "idle"
    /\ is_running
    /\ sent' = "Process already running!"
    /\ UNCHANGED <<handler_pc, handler_workflow, handler_task, tasks,
                   current_task, cancellation_requested, last_result,
                   run_returned, stop_seen, not_host_vars>>

\* a run command otherwise (main.py:29-40, 61-123): up to the first await of
\* run_workflow (process_controller.py:42-46)
HandleRun(c) ==
    /\ handler_pc[c] = "idle"
    /\ ~is_running
    /\ Len(tasks) + Cardinality({d \in Clients : handler_pc[d] = "starting"}) < MaxTasks
    /\ \E wf \in WorkflowNames \cup {"other"} :
        IF wf \in WorkflowNames
          THEN /\ cancellation_requested' = FALSE
               /\ sent' = "Starting"
               /\ handler_pc' = [handler_pc EXCEPT ![c] = "starting"]
               /\ handler_workflow' = [handler_workflow EXCEPT ![c] = wf]
               /\ run_returned' = [run_returned EXCEPT ![c] = << >>]
               /\ stop_seen' = [stop_seen EXCEPT ![c] = FALSE]
          ELSE /\ sent' = "Unknown workflow"
               /\ UNCHANGED <<cancellation_requested, handler_pc, handler_workflow,
                              run_returned, stop_seen>>
    /\ UNCHANGED <<handler_task, tasks, current_task, last_result, not_host_vars>>

\* run_workflow creates the task and awaits it (process_controller.py:49-51)
CreateTask(c) ==
    /\ handler_pc[c] = "starting"
    /\ ~workflow_call_raises(handler_workflow[c])
    /\ tasks' = Append(tasks, "pending")
    /\ current_task' = Len(tasks) + 1
    /\ handler_task' = [handler_task EXCEPT ![c] = Len(tasks) + 1]
    /\ handler_pc' = [handler_pc EXCEPT ![c] = "awaiting"]
    /\ UNCHANGED <<handler_workflow, cancellation_requested, last_result, sent,
                   run_returned, stop_seen, not_host_vars>>

\* the call of the workflow raises: no task is created, run_workflow reports
\* the failure and its finally clause runs (process_controller.py:49, 58-63);
\* handle_run_command ends (main.py:42-44)
WorkflowCallRaises(c) ==
    /\ handler_pc[c] = "starting"
    /\ workflow_call_raises(handler_workflow[c])
    /\ sent' = IF handler_workflow[c] = "ocr_grid"
                 THEN "OCR grid workflow failed" ELSE "failed"
    /\ current_task' = 0
    /\ cancellation_requested' = FALSE
    /\ run_returned' = [run_returned EXCEPT ![c] = <<FALSE, 0>>]
    /\ handler_pc' = [handler_pc EXCEPT ![c] = "idle"]
    /\ handler_workflow' = [handler_workflow EXCEPT ![c] = ""]
    /\ UNCHANGED <<handler_task, tasks, last_result, stop_seen, not_host_vars>>

\* a tool of the assistant calls controller.run_workflow from inside the
\* workflow task (assistant/tools.py:35-41, 98-104, 120-127); the call of its
\* workflow raises as above and run_workflow's finally clause runs
\* (process_controller.py:42-63).  A cancellation that reaches the task while
\* it waits in that try block is caught there (55-57) and the task goes on.
ToolRunsWorkflow(t) ==
    /\ t <= Len(tasks)
    /\ tasks[t] \in {"pending", "cancelling"}
    /\ IF tasks[t] = "cancelling"
         THEN sent' = "was cancelled" /\ tasks' = [tasks EXCEPT ![t] = "pending"]
         ELSE sent' = "failed" /\ UNCHANGED tasks
    /\ current_task' = 0
    /\ cancellation_requested' = FALSE
    /\ UNCHANGED <<handler_pc, handler_workflow, handler_task,
                   last_result, run_returned, stop_seen, not_host_vars>>

\* the workflow coroutine returns or raises; after Task.cancel() it is left
\* by the CancelledError thrown into it
TaskEnds(t) ==
    /\ t <= Len(tasks)
    /\ \/ /\ tasks[t] = "pending"
          /\ \E outcome \in {"done", "failed"} : tasks' = [tasks EXCEPT ![t] = outcome]
       \/ /\ tasks[t] = "cancelling"
          /\ tasks' = [tasks EXCEPT ![t] = "cancelled"]
    /\ UNCHANGED <<handler_pc, handler_workflow, handler_task, current_task,
                   cancellation_requested, last_result, sent, run_returned,
                   stop_seen, not_host_vars>>

\* a run_workflow that answers a failed workflow like a finished one
RunWorkflowReturn_recording_failures(c) ==
    /\ handler_pc[c] = "awaiting"
    /\ tasks[handler_task[c]] \notin {"pending", "cancelling"}
    /\ last_result' = handler_task[c]
    /\ run_returned' = [run_returned EXCEPT ![c] = <<TRUE, handler_task[c]>>]
    /\ current_task' = 0
    /\ cancellation_requested' = FALSE
    /\ handler_pc' = [handler_pc EXCEPT ![c] = "idle"]
    /\ handler_workflow' = [handler_workflow EXCEPT ![c] = ""]
    /\ handler_task' = [handler_task EXCEPT ![c] = 0]
    /\ UNCHANGED <<tasks, sent, stop_seen, not_host_vars>>

\* run_workflow resumes after its task ended (process_controller.py:51-63)
RunWorkflowReturn(c) ==
    /\ handler_pc[c] = "awaiting"
    /\ tasks[handler_task[c]] \notin {"pending", "cancelling"}
    /\ CASE tasks[handler_task[c]] = "done" ->
              /\ last_result' = handler_task[c]
              /\ run_returned' = [run_returned EXCEPT ![c] = <<TRUE, handler_task[c]>>]
              /\ UNCHANGED sent
         [] tasks[handler_task[c]] = "failed" ->
              /\ sent' = "failed"
              /\ run_returned' = [run_returned EXCEPT ![c] = <<FALSE, 0>>]
              /\ UNCHANGED last_result
         [] tasks[handler_task[c]] = "cancelled" ->
              /\ sent' = "was cancelled"
              /\ run_returned' = [run_returned EXCEPT ![c] = <<FALSE, 0>>]
              /\ UNCHANGED last_result
    /\ current_task' = 0
    /\ cancellation_requested' = FALSE
    /\ handler_pc' = [handler_pc EXCEPT ![c] = "idle"]
    /\ handler_workflow' = [handler_workflow EXCEPT ![c] = ""]
    /\ handler_task' = [handler_task EXCEPT ![c] = 0]
    /\ UNCHANGED <<tasks, stop_seen, not_host_vars>>

\* a stop command (main.py:126-134) up to the first await of cancel()
\* (process_controller.py:65-83)
HandleStop(c) ==
    /\ handler_pc[c] = "idle"
    /\ IF is_running
         THEN /\ cancellation_requested' = TRUE
              /\ sent' = "Cancelling current process..."
              /\ handler_pc' = [handler_pc EXCEPT ![c] = "cancelling"]
         ELSE /\ sent' = IF cancellation_requested
                           THEN "Cancellation already in progress..."
                           ELSE "No active process to stop"
              /\ UNCHANGED <<cancellation_requested, handler_pc>>
    /\ stop_seen' = [d \in Clients |->
            \/ stop_seen[d]
            \/ handler_pc[d] = "starting"
            \/ /\ handler_pc[d] = "awaiting"
               /\ tasks[handler_task[d]] \in {"pending", "cancelling"}]
    /\ UNCHANGED <<handler_workflow, handler_task, tasks, current_task, last_result,
                   run_returned, not_host_vars>>

\* cancel() after its message was sent: `self._current_task.cancel()` and the
\* start of wait_for (process_controller.py:70-76).  Without a current task the
\* attribute access raises, and wait_for on a task that already failed raises
\* its exception: either leaves handle_stop_command and ends the connection
\* handler (ws_server.py:41-62).
CancelTask(c) ==
    /\ handler_pc[c] = "cancelling"
    /\ IF current_task = 0
         THEN /\ handler_pc' = [handler_pc EXCEPT ![c] = "closed"]
              /\ UNCHANGED <<tasks, handler_task>>
         ELSE IF tasks[current_task] \in {"pending", "cancelling"}
           THEN /\ tasks' = [tasks EXCEPT ![current_task] = "cancelling"]
                /\ handler_task' = [handler_task EXCEPT ![c] = current_task]
                /\ handler_pc' = [handler_pc EXCEPT ![c] = "waiting"]
           ELSE /\ handler_pc' = [handler_pc EXCEPT ![c] =
                        IF tasks[current_task] = "failed" THEN "closed" ELSE "idle"]
                /\ UNCHANGED <<tasks, handler_task>>
    /\ UNCHANGED <<handler_workflow, current_task, cancellation_requested, last_result,
                   sent, run_returned, stop_seen, not_host_vars>>

\* wait_for ends (process_controller.py:73-76): the task ended, or the half
\* second is over, which cancels the task once more
StopWaitEnds(c) ==
    /\ handler_pc[c] = "waiting"
    /\ tasks[handler_task[c]] # "cancelling"
    /\ tasks' = [tasks EXCEPT ![handler_task[c]] = IF @ = "pending" THEN "cancelling" ELSE @]
    /\ handler_pc' = [handler_pc EXCEPT ![c] =
            IF tasks[handler_task[c]] = "failed" THEN "closed" ELSE "idle"]
    /\ handler_task' = [handler_task EXCEPT ![c] = 0]
    /\ UNCHANGED <<handler_workflow, current_task, cancellation_requested, last_result,
                   sent, run_returned, stop_seen, not_host_vars>>

-----------------------------------------------------------------------------

EngineStep ==
    \/ ExecutorReturn
    \/ ExecSet
    \/ ExecMove
    \/ ExecTurn
    \/ ExecHardware
    \/ HardwareReturn
    \/ ExecWait
    \/ WaitPoll
    \/ WaitSleep
    \/ ExecLoop
    \/ LoopYield
    \/ LoopTrueIteration
    \/ LoopCountIteration
    \/ ExecWhile
    \/ WhileIteration
    \/ ExecIf
    \/ IfReturn

Next ==
    \/ EngineStep
    \/ ExecutorCancelled
    \/ SignalCancel
    \/ Abort

Spec == EngineInit /\ [][Next]_vars

ParseNext ==
    \/ ParseEmptyRow
    \/ ParseRowError
    \/ ParseElseRow
    \/ ParseCommandRow
    \/ ParseReturn

\* the parser alone; no execution has started
ParseSpecInit == ParseInit /\ rows \in 0..MaxRows /\ EngineIdle /\ HostInit

ParseSpec == ParseSpecInit /\ [][ParseNext]_vars

HostNext ==
    \/ \E c \in Clients : HandleRunRejected(c)
    \/ \E c \in Clients : HandleRun(c)
    \/ \E c \in Clients : CreateTask(c)
    \/ \E c \in Clients : WorkflowCallRaises(c)
    \/ \E t \in 1..MaxTasks : ToolRunsWorkflow(t)
    \/ \E t \in 1..MaxTasks : TaskEnds(t)
    \/ \E c \in Clients : RunWorkflowReturn(c)
    \/ \E c \in Clients : HandleStop(c)
    \/ \E c \in Clients : CancelTask(c)
    \/ \E c \in Clients : StopWaitEnds(c)

\* the host alone; the workflows are opaque tasks
HostSpecInit == HostInit /\ ParseInit /\ rows = 0 /\ EngineIdle

HostSpec == HostSpecInit /\ [][HostNext]_vars

-----------------------------------------------------------------------------
(* broadcast and the connection handlers (core/ws_server.py).  A message is *)
(* named by its place in `emitted`.  client.send hands the frame to the     *)
(* connection at once and may then wait for the connection to drain; the    *)
(* senders waiting on one connection resume in the order they arrived.      *)

\* LogLevel (core/types.py): DEBUG, and INFO for every level that is sent on
LogLevels == {"DEBUG", "INFO"}

\* who calls broadcast: the workflow task, numbered 0, and the command
\* handler of each connection (process_controller.py:46-59, 69-83;
\* main.py:26, 43, 134)
Emitters == {0} \cup Clients

\* the orders in which iterating the set can yield its elements after
\* connected_clients.add(c): c takes a free slot of the table, between, before
\* or after the others (ws_server.py:40)
iteration_orders(order, c) ==
    {SubSeq(order, 1, n) \o <<c>> \o SubSeq(order, n + 1, Len(order)) : n \in 0..Len(order)}

\* connected_clients.discard(client) for the clients of S (ws_server.py:34, 62)
discard(order, S) == SelectSeq(order, LAMBDA x : x \notin S)

\* the broadcast calls that have not returned
Unfinished == {b \in 1..Len(loops) : loops[b].k <= Len(loops[b].clients)}

\* a broadcast call by e over the copy cl that awaits the send to its n-th
\* client; nothing is kept of a call that has returned
BroadcastLoop(e, cl, n) ==
    IF n <= Len(cl) THEN [by |-> e, clients |-> cl, k |-> n]
                    ELSE [by |-> 0, clients |-> << >>, k |-> 1]

\* handler: a client connects (ws_server.py:37-40)
HandlerConnect(c) ==
    /\ c \notin connected_clients \cup closed
    /\ received[c] = << >>
    /\ connected_clients' = connected_clients \cup {c}
    /\ client_order' \in iteration_orders(client_order, c)
    /\ UNCHANGED <<closed, received, emitted, loops, senders, not_ws_vars>>

\* the connection of a client closes: from now on client.send raises
ConnectionClosed(c) ==
    /\ c \in connected_clients
    /\ c \notin closed
    /\ closed' = closed \cup {c}
    /\ UNCHANGED <<connected_clients, client_order, received, emitted, loops, senders,
                   not_ws_vars>>

\* handler leaves its receive loop and runs its finally clause (ws_server.py:59-62)
HandlerFinally(c) ==
    /\ c \in connected_clients
    /\ c \in closed
    /\ connected_clients' = connected_clients \ {c}
    /\ client_order' = discard(client_order, {c})
    /\ UNCHANGED <<closed, received, emitted, loops, senders, not_ws_vars>>

\* the body of the loop from the k-th client of the copy on, up to the next
\* client.send that is awaited (ws_server.py:29-34): a send on a closed
\* connection raises and the client is discarded; the first send on an open
\* connection hands over the frame and awaits.  The new place in the copy.
next_send(cl, k) ==
    IF \E n \in k..Len(cl) : cl[n] \notin closed
      THEN CHOOSE n \in k..Len(cl) :
               cl[n] \notin closed /\ \A m \in k..(n - 1) : cl[m] \in closed
      ELSE Len(cl) + 1

send_from(b, cl, k, gone, waiting) ==
    LET n == next_send(cl, k)
        raised == gone \cup {cl[m] : m \in k..(n - 1)}
    IN  /\ connected_clients' = connected_clients \ raised
        /\ client_order' = discard(client_order, raised)
        /\ IF n <= Len(cl)
             THEN /\ received' = [received EXCEPT ![cl[n]] = Append(@, b)]
                  /\ senders' = [waiting EXCEPT ![cl[n]] = Append(@, b)]
             ELSE /\ UNCHANGED received
                  /\ senders' = waiting

\* broadcast without the test of the level
broadcast_sending_debug(e, level) ==
    /\ Len(emitted) < MaxMessages
    /\ e \in Clients => e \in connected_clients \ closed
    /\ \A b \in Unfinished : loops[b].by # e
    /\ emitted' = Append(emitted, level)
    /\ LET cl == client_order IN
         /\ loops' = Append(loops, BroadcastLoop(e, cl, next_send(cl, 1)))
         /\ send_from(Len(emitted) + 1, cl, 1, {}, senders)
    /\ UNCHANGED <<closed, not_ws_vars>>

\* broadcast is called (ws_server.py:16-31): DEBUG is printed only, any other
\* level starts the loop over a copy of connected_clients
broadcast(e, level) ==
    /\ Len(emitted) < MaxMessages
    /\ e \in Clients => e \in connected_clients \ closed
    /\ \A b \in Unfinished : loops[b].by # e
    /\ emitted' = Append(emitted, level)
    /\ LET cl == IF level = "DEBUG" THEN << >> ELSE client_order IN
         /\ loops' = Append(loops, BroadcastLoop(e, cl, next_send(cl, 1)))
         /\ send_from(Len(emitted) + 1, cl, 1, {}, senders)
    /\ UNCHANGED <<closed, not_ws_vars>>

\* client.send returns, or raises because the connection closed meanwhile,
\* and the loop goes on to the next client (ws_server.py:29-34)
ClientSendReturns(b) ==
    /\ b \in Unfinished
    /\ LET cl == loops[b].clients
           c == cl[loops[b].k]
       IN  /\ senders[c] # << >>
           /\ Head(senders[c]) = b
           /\ loops' = [loops EXCEPT ![b] = BroadcastLoop(@.by, cl, next_send(cl, @.k + 1))]
           /\ send_from(b, cl, loops[b].k + 1, IF c \in closed THEN {c} ELSE {},
                        [senders EXCEPT ![c] = Tail(@)])
    /\ UNCHANGED <<closed, emitted, not_ws_vars>>

BroadcastNext ==
    \/ \E c \in Clients : HandlerConnect(c)
    \/ \E c \in Clients : ConnectionClosed(c)
    \/ \E c \in Clients : HandlerFinally(c)
    \/ \E e \in Emitters, level \in LogLevels : broadcast(e, level)
    \/ \E b \in 1..MaxMessages : ClientSendReturns(b)

\* the server alone: no workflow is parsed or executed
BroadcastInit == HostInit /\ ParseInit /\ rows = 0 /\ EngineIdle

BroadcastSpec == BroadcastInit /\ [][BroadcastNext]_vars

-----------------------------------------------------------------------------
(* The condition of an IF (engine/commands/control.py:166-177) *)

\* the tokens every list of up to MaxTokens tokens is made of
ExpressionTokens == {"X", "5", "AND", "or", "<", "+", "*", "NOT"}

\* longer conditions, with other operands and operators
ExampleExpressions ==
    {<<"X", ">", "5", "AND", "Y", "<", "10">>,
     <<"A", "+", "B", "<", "C">>,
     <<"not", "x", "==", "true", "OR", "NOT", "OBSTACLE">>,
     <<"X", "", "-", "-5", " ", "/", "2">>,
     <<"DISTANCE", "<=", "10", "and", "LEFT", "!=", "RIGHT">>,
     <<"A", "-", "B", "-", "C">>,
     <<"A", "*", "B", "+", "C">>,
     <<"A", "+", "B", "*", "C">>,
     <<"A", "/", "B", "-", "C", "*", "5">>}

TokenLists ==
    UNION {[1..n -> ExpressionTokens] : n \in 1..MaxTokens} \cup ExampleExpressions

\* IfCommand.parse_args stores the condition (control.py:175)
IfParseArgs ==
    /\ tokens = << >>
    /\ \E ts \in TokenLists :
        /\ parse_tokens(ts) # NoValue
        /\ tokens' = ts
        /\ condition' = parse_tokens(ts)
    /\ UNCHANGED not_expr_vars

\* no value came out of the tokens: ValueError "Invalid condition"
\* (control.py:176-177)
IfParseArgsRaises ==
    /\ tokens = << >>
    /\ \E ts \in TokenLists :
        /\ parse_tokens(ts) = NoValue
        /\ tokens' = ts
        /\ condition' = NoValue
    /\ UNCHANGED not_expr_vars

ExpressionNext == IfParseArgs \/ IfParseArgsRaises

ExpressionInit == HostInit /\ ParseInit /\ rows = 0 /\ EngineIdle

ExpressionSpec == ExpressionInit /\ [][ExpressionNext]_vars

-----------------------------------------------------------------------------
(* Rows with a WHILE modifier: parse_args of WAIT, MOVE and TURN           *)
(* (commands/utility.py:21-46, commands/movement.py:20-48, 103-159) on the  *)
(* arguments GridParser.parse collects from one row (parser.py:84-107)      *)

\* the text of a stripped cell: its word in the cell's case
text(cell) == IF cell.style = "upper" THEN token_upper(cell.word) ELSE cell.word

\* what parse_args leaves in the command, or that it raised ValueError
Parsed(value, while_condition) ==
    [raises |-> FALSE, value |-> value, while_condition |-> while_condition]

ParseArgsRaised == [raises |-> TRUE, value |-> NoValue, while_condition |-> NoValue]

\* `WHILE | condition` from the k-th token on (utility.py:35-42,
\* movement.py:35-42, 135-143)
while_modifier(ts, k, value) ==
    IF Len(ts) < k + 1 THEN ParseArgsRaised
    ELSE IF parse_tokens(SubSeq(ts, k + 1, Len(ts))) = NoValue THEN ParseArgsRaised
    ELSE Parsed(value, parse_tokens(SubSeq(ts, k + 1, Len(ts))))

\* the single value of WAIT | time and MOVE | distance (utility.py:44-46,
\* movement.py:44-48)
single_value(token) ==
    IF ValueParser_parse(token) = NoValue THEN ParseArgsRaised
    ELSE Parsed(ValueParser_parse(token), NoValue)

\* float(token) succeeds (movement.py:119-120, 146)
is_float(token) == token \in DOMAIN int_of

abs(n) == IF n < 0 THEN 0 - n ELSE n

\* WaitCommand.parse_args, MoveCommand.parse_args, TurnCommand.parse_args
parse_args(cls, ts) ==
    CASE cls = "WaitCommand" ->
            IF ts = << >> THEN ParseArgsRaised
            ELSE IF token_upper(ts[1]) = "WHILE" THEN while_modifier(ts, 1, NoValue)
            ELSE single_value(ts[1])
      [] cls = "MoveCommand" ->
            IF ts = << >> THEN Parsed(NumberValue(1), NoValue)
            ELSE IF token_upper(ts[1]) = "WHILE" THEN while_modifier(ts, 1, NoValue)
            ELSE single_value(ts[1])
      [] cls = "TurnCommand" ->
            IF ts = << >> THEN ParseArgsRaised
            ELSE IF is_float(ts[1]) THEN Parsed(NumberValue(int_of[ts[1]]), NoValue)
            ELSE IF token_upper(ts[1]) \notin {"LEFT", "RIGHT"} THEN ParseArgsRaised
            ELSE IF Len(ts) = 1 THEN Parsed(DirectionValue(token_upper(ts[1])), NoValue)
            ELSE IF token_upper(ts[2]) = "WHILE"
              THEN while_modifier(ts, 2, DirectionValue(token_upper(ts[1])))
            ELSE IF ~is_float(ts[2]) THEN ParseArgsRaised
            ELSE Parsed(NumberValue(IF token_upper(ts[1]) = "LEFT"
                                      THEN 0 - abs(int_of[ts[2]])
                                      ELSE abs(int_of[ts[2]])),
                        NoValue)
      [] OTHER -> Parsed(NoValue, NoValue)

\* the cells of a row written with the given words
cells(words, style) == [i \in 1..Len(words) |-> Cell(words[i], style, 0, 0)]

\* the commands that take a WHILE modifier, with the argument before it
ModifierHeads == {<<"wait">>, <<"move">>, <<"turn", "left">>, <<"turn", "right">>}

ModifierConditions ==
    {<< >>, <<"obstacle">>, <<"true">>, <<"not", "obstacle">>, <<"distance", "<", "10">>}

\* command | WHILE | condition at column k, and the same rows without WHILE
ModifierRows ==
    {Indent(k) \o cells(head \o modifier \o cond, style) :
        k \in 0..MaxIndent, head \in ModifierHeads,
        modifier \in {<< >>, <<"while">>}, cond \in ModifierConditions,
        style \in {"upper", "lower"}}

\* GridParser.parse on a grid of one row whose command is created
\* (parser.py:84-107, 128-147): nothing is on the stack, the command joins
\* the top level and is pushed
ParseModifierRow ==
    /\ parse_state = "parsing"
    /\ grid = << >>
    /\ rows = 1
    /\ \E raw \in ModifierRows :
        LET row == preprocess_row(raw)
            first_col == first_non_empty(row)
            name == upper(strip(row[first_col + 1])).word
            cls == get_command_class(name)
            args == collect_args(row, first_col + 2)
            ts == [i \in 1..Len(args) |-> text(args[i])]
        IN  /\ ~parse_args(cls, ts).raises
            /\ grid' = <<raw>>
            /\ nodes' = <<Node(cls, 0, first_col, args)>>
            /\ out_commands' = <<1>>
            /\ scope_stack' = <<Scope(first_col, 1)>>
            /\ tokens' = ts
            /\ condition' = parse_args(cls, ts).while_condition
    /\ UNCHANGED <<in_else_block, else_if_command, parse_state, rows, parse_error,
                   engine_vars, host_vars, ws_vars, tool_vars>>

\* parse_args raises ValueError and parse with it (parser.py:99-107)
ParseModifierRowError ==
    /\ parse_state = "parsing"
    /\ grid = << >>
    /\ rows = 1
    /\ \E raw \in ModifierRows :
        LET row == preprocess_row(raw)
            first_col == first_non_empty(row)
            name == upper(strip(row[first_col + 1])).word
            cls == get_command_class(name)
            args == collect_args(row, first_col + 2)
            ts == [i \in 1..Len(args) |-> text(args[i])]
        IN  /\ parse_args(cls, ts).raises
            /\ grid' = <<raw>>
            /\ nodes' = <<NoNode>>
            /\ tokens' = ts
            /\ parse_state' = "Bad arguments"
    /\ UNCHANGED <<out_commands, scope_stack, in_else_block, else_if_command, rows,
                   parse_error, condition, engine_vars, host_vars, ws_vars, tool_vars>>

ModifierNext == ParseModifierRow \/ ParseModifierRowError \/ ParseReturn

ModifierInit == ParseInit /\ rows = 1 /\ EngineIdle /\ HostInit

ModifierSpec == ModifierInit /\ [][ModifierNext]_vars

-----------------------------------------------------------------------------
(* engine_workflow (engine/workflow.py:9-140): parse the grid, then execute *)

\* ValueParser.parse / ExpressionParser.parse_tokens on the argument cells
\* the grids use (control.py:33, 176)
parse_value(args) ==
    CASE args = << >> -> NoValue
      [] Len(args) = 3 /\ args[2].word = "/" ->
            Expression(NumberValue(IF args[1].word = "1" THEN 1 ELSE 0), "/",
                       NumberValue(IF args[3].word = "1" THEN 1 ELSE 0))
      [] args # << >> /\ args[1].word = "true" -> BooleanValue(TRUE)
      [] args # << >> /\ args[1].word = "false" -> BooleanValue(FALSE)
      [] args # << >> /\ args[1].word = "2" -> NumberValue(2)
      [] OTHER -> NoValue

\* the commands the parser created, with the fields their parse_args set
\* (movement.py:29-32, control.py:33, 176; base.py:20, control.py:165)
RECURSIVE command_of(_)
commands_of(ids) == [k \in 1..Len(ids) |-> command_of(ids[k])]

command_of(id) ==
    LET n == nodes[id]
        nested == commands_of(n.nested_commands)
    IN  CASE n.cls = "MoveCommand" ->
                [MoveCommand(IF n.args = << >> THEN NumberValue(1)
                                               ELSE parse_value(SubSeq(n.args, 1, 1)))
                    EXCEPT !.nested_commands = nested]
          [] n.cls = "PenDownCommand" ->
                [PenDownCommand EXCEPT !.nested_commands = nested]
          [] n.cls = "LoopCommand" ->
                LoopCommand(parse_value(SubSeq(n.args, 1, 1)), nested)
          [] n.cls = "IfCommand" ->
                IfCommand(parse_value(n.args), nested, commands_of(n.else_commands))
          [] OTHER -> NoCommand

\* `is_empty` (workflow.py:40): every cell of the grid is blank
is_empty == \A r \in 1..Len(grid) : \A c \in 1..Len(grid[r]) : ~non_empty(grid[r][c])

\* no grid, or a grid without rows (workflow.py:27-37)
WorkflowNoGrid ==
    /\ status = "idle"
    /\ rows = 0
    /\ parse_state = "parsing"
    /\ parse_state' = "not parsed"
    /\ status' = "returned"
    /\ result' = ErrorResult("No grid data provided")
    /\ UNCHANGED <<grid, nodes, out_commands, scope_stack, in_else_block,
                   else_if_command, rows, parse_error, host_vars, ws_vars, expr_vars, tool_vars,
                   commands,
                   max_steps, steps_executed, variables, pen_down, path,
                   position, direction, hw_calls, hw_results, warnings, stack, elapsed,
                   check_cancelled, since_cancel, last>>

\* a workflow that treats a grid of blank cells like a missing grid
WorkflowEmptyGrid_rejecting ==
    /\ status = "idle"
    /\ rows > 0
    /\ parse_state = "done"
    /\ is_empty
    /\ status' = "returned"
    /\ result' = ErrorResult("No grid data provided")
    /\ UNCHANGED <<not_engine_vars, commands, max_steps, steps_executed, variables, pen_down, path,
                   position, direction, hw_calls, hw_results, warnings, stack, elapsed, check_cancelled,
                   since_cancel, last>>

\* a grid of blank cells is not parsed (workflow.py:40-55)
WorkflowEmptyGrid ==
    /\ status = "idle"
    /\ rows > 0
    /\ parse_state = "done"
    /\ is_empty
    /\ status' = "returned"
    /\ result' = SuccessResult
    /\ UNCHANGED <<not_engine_vars, commands, max_steps, steps_executed, variables, pen_down, path,
                   position, direction, hw_calls, hw_results, warnings, stack, elapsed, check_cancelled,
                   since_cancel, last>>

\* parse returned: Executor.execute starts on a fresh ExecutionContext
\* (workflow.py:69-93, executor.py:43-53)
StartExecution ==
    /\ status = "idle"
    /\ parse_state = "done"
    /\ ~is_empty
    /\ commands' = commands_of(out_commands)
    /\ max_steps' = DefaultMaxSteps
    /\ stack' = <<Frame("top", commands', 0, NoCommand)>>
    /\ status' = "running"
    /\ UNCHANGED <<not_engine_vars, steps_executed, variables, pen_down, path,
                   position, direction, hw_calls, hw_results, warnings, elapsed, check_cancelled,
                   since_cancel, last, result>>

\* parse raised: engine_workflow returns the error (workflow.py:127-140)
ParseFailed ==
    /\ status = "idle"
    /\ parse_state \notin {"parsing", "done", "not parsed"}
    /\ status' = "raised"
    /\ result' = [ErrorResult(parse_state) EXCEPT !.about = parse_error]
    /\ UNCHANGED <<not_engine_vars, commands, max_steps, steps_executed, variables, pen_down, path,
                   position, direction, hw_calls, hw_results, warnings, stack, elapsed, check_cancelled,
                   since_cancel, last>>

\* the commands a grid of RowShapes can hold
WorkflowEngineStep ==
    \/ ExecutorReturn
    \/ ExecMove
    \/ ExecHardware
    \/ HardwareReturn
    \/ ExecLoop
    \/ LoopYield
    \/ LoopCountIteration
    \/ ExecIf
    \/ IfReturn

\* the parameters of engine_workflow and of ocr_grid_workflow that have no
\* default (engine/workflow.py:9-14, vision/workflow.py:15-19)
engine_workflow_required == {"send_message", "check_cancelled"}

ocr_grid_workflow_required == {"ocr_engine", "send_message", "check_cancelled"}

\* a tool that hands the probe of the controller to engine_workflow
execute_program_call_with_check_cancelled ==
    {"send_message", "check_cancelled", "grid_data", "use_hardware"}

\* the keyword arguments of the tool's engine_workflow call (tools.py:121-125)
\* and of its ocr_grid_workflow call (tools.py:99-102)
execute_program_call == {"send_message", "grid_data", "use_hardware"}

read_grid_call == {"ocr_engine", "send_message"}

\* ProcessController.run_workflow seen from its caller: a call of the
\* workflow that raises TypeError for a missing argument is answered
\* (False, None), a workflow that returned is answered (True, its result)
\* (process_controller.py:49-53, 58-60)
run_workflow(required, given, returned) ==
    IF required \ given # {} THEN <<FALSE, NoResult>> ELSE <<TRUE, returned>>

ProgramExecuted == "Program executed successfully"

ProgramFailed == "Program execution failed"

\* execute_program (tools.py:90-132).  custom_grid is the grid engine_workflow
\* was given above and `result` is what engine_workflow returns for it.
ExecuteProgram ==
    /\ status \in {"returned", "raised"}
    /\ tool_reply = ""
    /\ \E use_current_grid \in BOOLEAN :
        IF use_current_grid
          THEN LET read == run_workflow(ocr_grid_workflow_required, read_grid_call, grid)
               IN  /\ ~read[1]
                   /\ tool_reply' = "I couldn't read your current blocks"
          ELSE IF rows = 0
            THEN tool_reply' = "No custom grid provided"
            ELSE LET run == run_workflow(engine_workflow_required,
                                         execute_program_call, result)
                 IN  tool_reply' = IF run[1] THEN ProgramExecuted ELSE ProgramFailed
    /\ UNCHANGED not_tool_vars

WorkflowNext ==
    \/ WorkflowNoGrid
    \/ (rows > 0 /\ ParseNext)
    \/ WorkflowEmptyGrid
    \/ StartExecution
    \/ ParseFailed
    \/ WorkflowEngineStep
    \/ ExecuteProgram

WorkflowInit == ParseInit /\ rows \in 0..MaxWorkflowRows /\ EngineIdle /\ HostInit

WorkflowSpec == WorkflowInit /\ [][WorkflowNext]_vars

-----------------------------------------------------------------------------
(* Executor.execute on the programs of the test suite, with the default    *)
(* budget and a probe that stays false                                     *)

ExampleInit ==
    /\ commands \in Examples
    /\ max_steps = DefaultMaxSteps
    /\ steps_executed = 0
    /\ variables = NoVariables
    /\ pen_down = FALSE
    /\ path = << >>
    /\ position = <<0, 0>>
    /\ direction = "forward"
    /\ hw_calls = << >>
    /\ hw_results = << >>
    /\ warnings = << >>
    /\ stack = <<Frame("top", commands, 0, NoCommand)>>
    /\ status = "running"
    /\ elapsed = 0
    /\ check_cancelled = FALSE
    /\ since_cancel = 0
    /\ last = NoEvent
    /\ result = NoResult
    /\ ParseInit
    /\ rows = 0
    /\ HostInit

ExampleNext ==
    \/ ExecutorReturn
    \/ ExecSet
    \/ ExecMove
    \/ ExecTurn
    \/ ExecHardware
    \/ HardwareReturn
    \/ ExecLoop
    \/ LoopYield
    \/ LoopCountIteration
    \/ ExecIf
    \/ IfReturn

ExampleSpec == ExampleInit /\ [][ExampleNext]_vars

-----------------------------------------------------------------------------
(* ExecutionContext.turn (context.py:150-207), awaited once on a context   *)
(* with any heading                                                        *)

Directions == {"forward", "right", "backward", "left"}

\* `degrees % 360`, then `degrees -= 360` above 180 (context.py:172-174)
normalized(degrees) ==
    LET m == degrees % 360 IN IF m > 180 THEN m - 360 ELSE m

\* ExecutionContext.get_direction_vector (context.py:83-93)
get_direction_vector(d) ==
    CASE d = "forward" -> <<0, 1>>
      [] d = "backward" -> <<0, -1>>
      [] d = "left" -> <<-1, 0>>
      [] d = "right" -> <<1, 0>>
      [] OTHER -> <<0, 0>>

\* the heading as an angle (context.py:177-182)
current_degrees(d) ==
    CASE d = "forward" -> 0
      [] d = "right" -> 90
      [] d = "backward" -> 180
      [] d = "left" -> 270

\* a conversion that hands the angle 45 + 90k to the earlier heading
to_direction_closed_above(new_degrees) ==
    IF 315 < new_degrees \/ new_degrees <= 45 THEN "forward"
    ELSE IF 45 < new_degrees /\ new_degrees <= 135 THEN "right"
    ELSE IF 135 < new_degrees /\ new_degrees <= 225 THEN "backward"
    ELSE "left"

\* "Convert back to Direction" (context.py:188-205)
to_direction(new_degrees) ==
    IF new_degrees = 0 THEN "forward"
    ELSE IF new_degrees = 90 THEN "right"
    ELSE IF new_degrees = 180 THEN "backward"
    ELSE IF new_degrees = 270 THEN "left"
    ELSE IF 315 <= new_degrees \/ new_degrees < 45 THEN "forward"
    ELSE IF 45 <= new_degrees /\ new_degrees < 135 THEN "right"
    ELSE IF 135 <= new_degrees /\ new_degrees < 225 THEN "backward"
    ELSE "left"

\* the heading ExecutionContext.turn leaves (context.py:170-205)
turn(d, degrees) == to_direction((current_degrees(d) + normalized(degrees)) % 360)

TurnInit ==
    /\ commands \in {<<TurnCommand(NumberValue(deg))>> : deg \in (0 - MaxDegrees)..MaxDegrees}
    /\ direction \in Directions
    /\ max_steps = DefaultMaxSteps
    /\ steps_executed = 0
    /\ variables = NoVariables
    /\ pen_down = FALSE
    /\ path = << >>
    /\ position = <<0, 0>>
    /\ hw_calls = << >>
    /\ hw_results = << >>
    /\ warnings = << >>
    /\ stack = <<Frame("top", commands, 0, NoCommand)>>
    /\ status = "running"
    /\ elapsed = 0
    /\ check_cancelled = FALSE
    /\ since_cancel = 0
    /\ last = NoEvent
    /\ result = NoResult
    /\ ParseInit
    /\ rows = 0
    /\ HostInit

\* `await context.turn(degrees)`: the hardware is asked to rotate, a failure
\* is logged, the heading is updated whatever the answer, one step counted
AwaitTurn ==
    /\ AtCommand
    /\ Cur.op = "TURN"
    /\ \E success \in BOOLEAN :
        /\ hw_calls' = Append(hw_calls, "rotate_degrees")
        /\ hw_results' = Append(hw_results, success)
        /\ warnings' = IF success THEN warnings
                                  ELSE Append(warnings, "Hardware rotation failed")
    /\ direction' = turn(direction, to_number(evaluate(Cur.val, variables)))
    /\ steps_executed' = steps_executed + 1
    /\ stack' = Advance(stack)
    /\ last' = [started |-> "turn", returned |-> "turn"]
    /\ UNCHANGED <<not_engine_vars, commands, max_steps, variables, pen_down, path,
                   position, status, elapsed, check_cancelled, since_cancel, result>>

TurnSpec == TurnInit /\ [][AwaitTurn]_vars

-----------------------------------------------------------------------------
(* LoopCommand.execute (control.py:38-87) on LOOP n and LOOP FALSE with     *)
(* bodies that raise no error                                              *)

LoopLeaves == {IncX, MoveCommand(NumberValue(1)), PenDownCommand, PenUpCommand}

LoopBodies ==
    {<< >>}
    \cup {<<c>> : c \in LoopLeaves}
    \cup {<<c, e>> : c \in LoopLeaves, e \in LoopLeaves}
    \cup {<<IncX, LoopCommand(NumberValue(2), <<PenDownCommand, IncX>>)>>}

LoopPrograms ==
    {<<LoopCommand(NumberValue(n), b)>> : n \in 0..MaxCount, b \in LoopBodies}
    \cup {<<PenDownCommand, IncX, LoopCommand(BooleanValue(FALSE), b)>> : b \in LoopBodies}

LoopInit ==
    /\ commands \in LoopPrograms
    /\ max_steps = DefaultMaxSteps
    /\ steps_executed = 0
    /\ variables = NoVariables
    /\ pen_down = FALSE
    /\ path = << >>
    /\ position = <<0, 0>>
    /\ direction = "forward"
    /\ hw_calls = << >>
    /\ hw_results = << >>
    /\ warnings = << >>
    /\ stack = <<Frame("top", commands, 0, NoCommand)>>
    /\ status = "running"
    /\ elapsed = 0
    /\ check_cancelled = FALSE
    /\ since_cancel = 0
    /\ last = NoEvent
    /\ result = NoResult
    /\ ParseInit
    /\ rows = 0
    /\ HostInit

LoopNext ==
    \/ ExecutorReturn
    \/ ExecSet
    \/ ExecMove
    \/ ExecHardware
    \/ HardwareReturn
    \/ ExecLoop
    \/ LoopYield
    \/ LoopCountIteration

LoopSpec == LoopInit /\ [][LoopNext]_vars

\* no cancellation; the event loop resumes the task whenever it can run
FairSpec == EngineInit /\ [][EngineStep]_vars /\ WF_vars(EngineStep)

-----------------------------------------------------------------------------
(* Properties of the interpreter *)

\* C1: in every reachable state steps_executed is at most max_steps + 1.
StepsNeverExceedBudgetPlusOne == steps_executed <= max_steps + 1

\* C2: whenever a command's execute has just returned normally,
\* steps_executed is at most max_steps.
NormalReturnWithinBudget == last.returned # "" => steps_executed <= max_steps

InUnboundedLoop ==
    \E k \in 1..Len(stack) :
        \/ stack[k].kind = "inf"
        \/ stack[k].kind = "while" /\ stack[k].owner.val = BooleanValue(TRUE)

BudgetError == status = "raised" /\ result = ErrorResult("Maximum steps exceeded")

\* C3: an execution that is inside LOOP TRUE, or inside a WHILE whose
\* condition is constantly true, eventually ends in the step-budget error,
\* whatever the loop's body.
UnboundedLoopHitsBudget == InUnboundedLoop ~> BudgetError

\* Executor.execute left its loop with commands still to run, which only the
\* cancellation probe causes (executor.py:59-62)
CancelledByProbe == status = "returned" /\ stack[1].i <= Len(commands)

\* C4: a run that was cancelled ends with success = false and an error
\* that says it was cancelled.
CancelledRunReportsFailure ==
    (CancelledByProbe \/ status = "aborted") =>
        (result.success = FALSE /\ result.error = "cancelled")

\* C5: once the cancellation probe returns true no step starts a command.
NoCommandStartsAfterCancel == [][check_cancelled => last'.started = ""]_vars

InWait == status \in {"waiting", "sleeping"}

\* C6: a timed WAIT is never still in progress more than one polling interval
\* after cancellation was signalled.
CancelledWaitEndsWithinOnePoll == (InWait /\ check_cancelled) => since_cancel <= 1

\* a WAIT that was cancelled while it slept has returned before its time was over
CancelledWaitEndedEarly ==
    /\ last.returned = "WAIT"
    /\ check_cancelled
    /\ since_cancel = 1
    /\ elapsed < Top.cmds[Top.i - 1].val.n

-----------------------------------------------------------------------------
(* Properties of the parser *)

Range(seq) == {seq[i] : i \in DOMAIN seq}

Count(seq, x) == Cardinality({i \in DOMAIN seq : seq[i] = x})

Children(id) == nodes[id].nested_commands \o nodes[id].else_commands

\* the command of row id is reachable from the returned list
RECURSIVE InTree(_)
InTree(id) ==
    \/ id \in Range(out_commands)
    \/ \E p \in 1..(id - 1) : id \in Range(Children(p)) /\ InTree(p)

\* how often the command of row id occurs in the lists of rows 1..p
RECURSIVE OccurrencesBelow(_, _)
OccurrencesBelow(id, p) ==
    IF p = 0 THEN 0 ELSE Count(Children(p), id) + OccurrencesBelow(id, p - 1)

Occurrences(id) == Count(out_commands, id) + OccurrencesBelow(id, Len(nodes))

Increasing(seq) == \A i, j \in DOMAIN seq : i < j => seq[i] < seq[j]

ParsedSoFar == parse_state \in {"parsing", "done"}

IsElseMarker(k) == nodes[scope_stack[k].id].cls = "ElseCommand"

\* C8: no ElseCommand is in the tree; every ELSE row is bound to an earlier IF
\* at the ELSE row's own column; and a row nested directly under an ELSE is in
\* the else list of the IF that ELSE is bound to.
ElseAbsorbedByAlignedIf ==
    ParsedSoFar =>
        /\ \A id \in 1..Len(nodes) : InTree(id) => nodes[id].cls # "ElseCommand"
        /\ \A k \in 1..Len(scope_stack) :
              IsElseMarker(k) =>
                  LET bound == find_if(scope_stack, k - 1) IN
                      /\ bound # 0
                      /\ bound < scope_stack[k].id
                      /\ nodes[bound].col = scope_stack[k].col
        /\ \A k \in 2..Len(scope_stack) :
              (IsElseMarker(k - 1) /\ ~IsElseMarker(k)) =>
                  scope_stack[k].id \in
                      Range(nodes[find_if(scope_stack, k - 2)].else_commands)

\* C9: every non-empty row other than ELSE has its command exactly once in
\* the tree, and the commands of every list are in row order.
EveryRowOnceInTree ==
    ParsedSoFar =>
        /\ \A id \in 1..Len(nodes) :
              nodes[id].cls \notin {"None", "ElseCommand"} =>
                  Occurrences(id) = 1 /\ InTree(id)
        /\ Increasing(out_commands)
        /\ \A id \in 1..Len(nodes) :
              Increasing(nodes[id].nested_commands) /\ Increasing(nodes[id].else_commands)

ControlFlow == {"LoopCommand", "WhileCommand", "IfCommand"}

\* C10: only LOOP, WHILE and IF commands have nested commands.
OnlyControlFlowNests ==
    \A id \in 1..Len(nodes) :
        nodes[id].nested_commands # << >> => nodes[id].cls \in ControlFlow

-----------------------------------------------------------------------------
(* Properties of the host *)

InFlight == {t \in 1..Len(tasks) : tasks[t] \in {"pending", "cancelling"}}

\* C7: at any time at most one workflow task is in flight on the
\* ProcessController.
AtMostOneWorkflowInFlight == Cardinality(InFlight) <= 1

-----------------------------------------------------------------------------
(* Properties of engine_workflow *)

\* no IF frame is open for an ELSE at column c: every IF on the scope stack
\* is deeper than c, so the pops of parser.py:69-82 remove it
NoOpenIf(c) ==
    \A k \in 1..Len(scope_stack) :
        nodes[scope_stack[k].id].cls = "IfCommand" => scope_stack[k].col > c

\* the step processes a row whose command is ELSE, at column c
ElseRowProcessed(c) ==
    /\ parse_state = "parsing"
    /\ Len(grid') = Len(grid) + 1
    /\ LET row == preprocess_row(grid'[Len(grid')]) IN
         /\ first_non_empty(row) = c
         /\ upper(strip(row[c + 1])).word = "else"
         /\ collect_args(row, c + 2) = << >>

COMMAND_NAMES ==
    {"move", "turn", "loop", "repeat", "for", "while", "if", "else", "set",
     "assign", "let", "pen_up", "penup", "up", "pen_down", "pendown", "down",
     "wait", "pause", "sleep", "delay", "alert_on", "alert_off"}

\* the step processes a row whose leading non-empty cell, at column c, is
\* the word w
RowProcessed(c, w) ==
    /\ parse_state = "parsing"
    /\ Len(grid') = Len(grid) + 1
    /\ LET row == preprocess_row(grid'[Len(grid')]) IN
         /\ first_non_empty(row) = c
         /\ upper(strip(row[c + 1])).word = w

\* C12: a row whose leading non-empty cell is not a registered command name
\* makes parsing fail with an error that names the word and its (row, col);
\* the workflow then ends with success = false and that error, and no
\* command has been executed, the commands of earlier rows included: no
\* step is counted, no hardware call is made, no state is changed
UnknownCommandFailsWorkflow ==
    /\ [][\A c \in 0..MaxIndent : \A w \in {"jump", "move", "if", "else"} :
            RowProcessed(c, w) /\ w \notin COMMAND_NAMES =>
                /\ parse_state' = "Unknown command"
                /\ parse_error' = Place(w, Len(grid), c)]_vars
    /\ [](parse_state = "Unknown command" =>
            /\ steps_executed = 0
            /\ hw_calls = << >>
            /\ ~pen_down
            /\ last = NoEvent
            /\ stack = << >>
            /\ status \in {"idle", "raised"}
            /\ status = "raised" =>
                  result = [ErrorResult("Unknown command") EXCEPT !.about = parse_error])

\* the workflow failed on an unknown word that follows a PEN_DOWN row
UnknownCommandAfterPenDown ==
    /\ status = "raised"
    /\ result.error = "Unknown command"
    /\ result.about.name = "jump"
    /\ result.about.row > 0
    /\ \E id \in 1..Len(nodes) :
          nodes[id] # NoNode /\ nodes[id].cls = "PenDownCommand"
    /\ hw_calls = << >>

-----------------------------------------------------------------------------
(* Properties of the test-suite programs *)

\* the step starts an IF: a frame over one of its two lists is pushed
IfStarts ==
    /\ AtCommand
    /\ Cur.op = "IF"
    /\ Len(stack') = Len(stack) + 1

\* C13: an IF starts exactly the list its condition selects, the then-body
\* when the condition is truthy and the else list otherwise, and the nested
\* chain of the test suite therefore ends at position.y = 6 for A = 10,
\* B = 5, C = 3 and at position.y = -1 for A = 2
IfRunsTheSelectedBranch ==
    /\ [][IfStarts =>
            stack'[Len(stack')].cmds =
                IF truthy(evaluate(Cur.val, variables))
                  THEN Cur.nested_commands ELSE Cur.else_commands]_vars
    /\ [](status = "returned" =>
            /\ commands = NestedIfProgram(10) => position[2] = 6
            /\ commands = NestedIfProgram(2) => position[2] = -1)

-----------------------------------------------------------------------------
(* Properties of the hardware calls *)

\* the step is the return of a hardware call that reports failure
HardwareFails ==
    /\ status = "hw"
    /\ Len(hw_results') = Len(hw_results) + 1
    /\ ~hw_results'[Len(hw_results')]

MotionCommandStarts ==
    /\ AtCommand
    /\ Cur.op \in {"MOVE", "TURN", "PEN_DOWN", "PEN_UP"}
    /\ last'.started = Cur.op
    /\ stack' = Advance(stack) \/ status' = "hw"

\* C15: the hardware sees one call per executed MOVE, TURN and PEN command,
\* in execution order: each such command appends exactly one call to the
\* calls received so far, and a command starts only while no call is pending
EachMotionCommandCallsHardware ==
    [][MotionCommandStarts =>
        /\ status # "hw"
        /\ Len(hw_calls') = Len(hw_calls) + 1
        /\ Len(hw_results) = Len(hw_calls)]_vars

-----------------------------------------------------------------------------
(* Properties of ExecutionContext.turn *)

\* C17: the heading is always a cardinal direction, and after turn(deg) from
\* heading h it is the cardinal whose band contains (angle(h) + deg) mod 360:
\* [315,360) and [0,45) FORWARD, [45,135) RIGHT, [135,225) BACKWARD,
\* [225,315) LEFT
TurnSnapsToTheBand ==
    /\ [](direction \in {"forward", "right", "backward", "left"})
    /\ [][last'.returned = "turn" /\ steps_executed' = steps_executed + 1 =>
            LET deg == commands[1].val.n
                angle == CASE direction = "forward" -> 0
                           [] direction = "right" -> 90
                           [] direction = "backward" -> 180
                           [] direction = "left" -> 270
                a == (angle + deg) % 360
            IN  direction' =
                  CASE a \in (315..359) \cup (0..44) -> "forward"
                    [] a \in 45..134 -> "right"
                    [] a \in 135..224 -> "backward"
                    [] a \in 225..314 -> "left"]_vars

\* a turn by -410 degrees, which is neither within a full circle nor a
\* multiple of 90, has left the context heading LEFT
TurnedLeftByMoreThanACircle ==
    /\ steps_executed = 1
    /\ last.returned = "turn"
    /\ commands[1].val.n = 0 - 410
    /\ direction = "left"

-----------------------------------------------------------------------------
(* Properties of MOVE, TURN and the pen *)

\* the sum of the angles of a list of TURN commands
RECURSIVE sum_of_turns(_)
sum_of_turns(cmds) ==
    IF cmds = << >> THEN 0
    ELSE to_number(evaluate(cmds[1].val, NoVariables)) + sum_of_turns(Tail(cmds))

TurnOnly(cmds) == cmds # << >> /\ \A k \in 1..Len(cmds) : cmds[k].op = "TURN"

\* C16: after a program that consists of TURN commands only, the heading is
\* the cardinal direction of the sum of its angles, snapped once with the
\* band rule (TURN 45, TURN LEFT 30, TURN RIGHT 60: 75 degrees, RIGHT)
TurnOnlyProgramSnapsTheSum ==
    status = "returned" /\ TurnOnly(commands) =>
        direction = to_direction(sum_of_turns(commands) % 360)

\* the step is a MOVE command, from its start to its return
MoveReturns ==
    /\ AtCommand
    /\ Cur.op = "MOVE"
    /\ last'.returned = "MOVE"
    /\ stack' = Advance(stack)

\* C18: an executed MOVE with the pen down appends exactly two points to the
\* path, the segment's start and then its end; with the pen up it leaves
\* the path unchanged
MoveWithPenDownAddsTwoPoints ==
    [][MoveReturns =>
        IF pen_down
          THEN path' = path \o <<position, position'>>
          ELSE path' = path]_vars

\* the step is the return of PEN_DOWN's hardware call, within the budget
PenDownReturns ==
    /\ status = "hw"
    /\ Cur.op = "PEN_DOWN"
    /\ status' = "running"

\* C19: PEN_DOWN sets pen_down and appends the current position to the path
\* exactly when the path is empty or ends elsewhere; the square program
\* (SET SIDE 3, SET COUNT 4, PEN_DOWN, LOOP COUNT [MOVE SIDE, TURN RIGHT],
\* PEN_UP) therefore ends at (0,0), heading FORWARD, pen up, with a path of
\* 9 points
PenDownStartsThePathAndSquareHasNinePoints ==
    /\ [][PenDownReturns =>
            /\ pen_down'
            /\ path' = IF path = << >> \/ path[Len(path)] # position
                         THEN Append(path, position) ELSE path]_vars
    /\ [](status = "returned" /\ commands = SquareProgram =>
            /\ position = <<0, 0>>
            /\ direction = "forward"
            /\ ~pen_down
            /\ Len(path) = 9)

\* C20: when MOVE d returns, the position has changed by d times the unit
\* vector of the heading, and heading, variables and pen_down are as before;
\* MOVE, MOVE, TURN RIGHT, MOVE, TURN LEFT, MOVE, MOVE ends at (1,4) facing
\* forward with 7 steps
MoveAdvancesAlongTheHeading ==
    /\ [][MoveReturns =>
            LET d == to_number(evaluate(Cur.val, variables))
                v == get_direction_vector(direction)
            IN  /\ position' = <<position[1] + d * v[1], position[2] + d * v[2]>>
                /\ direction' = direction
                /\ variables' = variables
                /\ pen_down' = pen_down]_vars
    /\ [](status = "returned" /\ commands = MoveTurnProgram =>
            /\ position = <<1, 4>>
            /\ direction = "forward"
            /\ steps_executed = 7)

-----------------------------------------------------------------------------
(* Properties of the step counter *)

\* the step is the return of a command that is not control flow
LeafReturns ==
    /\ status \in {"running", "hw", "waiting"}
    /\ last'.returned \in {"MOVE", "TURN", "SET", "PEN_UP", "PEN_DOWN", "WAIT",
                           "ALERT_ON", "ALERT_OFF"}
    /\ stack' = Advance(stack)

\* the step belongs to an IF, LOOP or WHILE itself: its start, the test
\* before an iteration or its return
ControlStep ==
    \/ AtCommand /\ Cur.op \in {"IF", "LOOP", "WHILE"} /\ stack' # stack
    \/ AtEnd /\ Top.kind # "top" /\ stack' # stack
    \/ status = "yielding" /\ status' = "running"

\* C21: steps_executed never decreases; each completed MOVE, TURN, SET,
\* PEN_UP, PEN_DOWN, timed WAIT, ALERT_ON and ALERT_OFF increases it by
\* exactly one, and the steps of IF, LOOP and WHILE themselves leave it
\* unchanged
EveryCompletedCommandCountsOneStep ==
    [][/\ steps_executed' >= steps_executed
       /\ LeafReturns => steps_executed' = steps_executed + 1
       /\ ControlStep => steps_executed' = steps_executed]_vars

-----------------------------------------------------------------------------
(* Properties of LOOP *)

\* the steps one execution of a list of commands adds to steps_executed, as
\* the commands count them: set_variable and increment_steps add one, MOVE
\* adds nothing, LOOP n adds what n executions of its body add
RECURSIVE steps_of(_)
steps_of(cmds) ==
    IF cmds = << >> THEN 0
    ELSE LET c == cmds[1] IN
         (CASE c.op \in {"SET", "PEN_DOWN", "PEN_UP"} -> 1
            [] c.op = "LOOP" /\ c.val.t = "num" -> c.val.n * steps_of(c.nested_commands)
            [] OTHER -> 0)
         + steps_of(Tail(cmds))

\* the hardware calls one execution of a list of commands makes, in order
RECURSIVE calls_of(_)
calls_of(cmds) ==
    IF cmds = << >> THEN << >>
    ELSE LET c == cmds[1]
             own == CASE c.op \in {"PEN_DOWN", "PEN_UP"} -> <<HardwareCall(c.op)>>
                      [] c.op = "LOOP" /\ c.val.t = "num" ->
                            LET once == calls_of(c.nested_commands)
                                many[k \in 0..c.val.n] ==
                                    IF k = 0 THEN << >> ELSE many[k - 1] \o once
                            IN  many[c.val.n]
                      [] OTHER -> << >>
         IN  own \o calls_of(Tail(cmds))

\* the step is a LOOP FALSE, from its start to its return
LoopFalseReturns ==
    /\ AtCommand
    /\ Cur.op = "LOOP"
    /\ evaluate(Cur.val, variables) = PyBool(FALSE)
    /\ stack' # stack

-----------------------------------------------------------------------------
(* Properties of engine_workflow's results *)

\* engine_workflow has returned
WorkflowEnded == status \in {"returned", "raised"}

\* the final state of a workflow that ran nothing
NothingRan ==
    /\ steps_executed = 0
    /\ position = <<0, 0>>
    /\ path = << >>
    /\ hw_calls = << >>

\* C23 as stated: for a grid without rows, with only empty rows or with
\* only blank cells the workflow returns success = true with zero steps,
\* position (0,0) and an empty path, and makes no hardware call
EmptyGridSucceeds ==
    WorkflowEnded /\ (rows = 0 \/ is_empty) => result.success /\ NothingRan

\* C23: for a grid that has rows, all of them empty or of blank cells only,
\* the workflow returns success = true with zero steps, position (0,0) and
\* an empty path, and makes no hardware call; for a grid without rows it
\* returns success = false with the error 'No grid data provided', having
\* run nothing either
EmptyGridSucceedsUnlessNoRows ==
    /\ WorkflowEnded /\ rows > 0 /\ is_empty =>
          /\ result.success
          /\ result.error = "None"
          /\ NothingRan
    /\ WorkflowEnded /\ rows = 0 =>
          /\ ~result.success
          /\ result.error = "No grid data provided"
          /\ NothingRan

\* the workflow has returned for a grid of one row without cells and one
\* row of blank cells
GridOfEmptyRowsReturned ==
    /\ WorkflowEnded
    /\ grid = <<NoCellsRow, BlankRow>>
    /\ rows = 2
    /\ result.success

-----------------------------------------------------------------------------
\* GridParser.parse raised a ValueError
ParseRaised ==
    parse_state \in {"Unknown command", "Bad arguments", "ELSE without matching IF"}

\* engine_workflow returned a failure that names `cause`
FailureReturned(cause) ==
    /\ status = "raised"
    /\ ~result.success
    /\ result.error = cause
    /\ result.error \notin {"", "None"}
    /\ result.commands_parsed = -1

-----------------------------------------------------------------------------
\* C25: run_workflow returns (True, result) and records the result as
\* last_result exactly when its workflow task completed normally; for a task
\* that raised, or that was cancelled through cancel(), and for a workflow
\* whose call raised, it returns (False, None) without raising, leaves
\* last_result as it was and sends the 'failed' or 'was cancelled' message.
RunWorkflowAnswersTheOutcome ==
    /\ [][\A c \in Clients :
            /\ handler_pc[c] = "awaiting" => handler_pc'[c] \in {"awaiting", "idle"}
            /\ handler_pc[c] = "awaiting" /\ handler_pc'[c] = "idle" =>
                 /\ tasks[handler_task[c]] \in {"done", "failed", "cancelled"}
                 /\ tasks[handler_task[c]] = "done" =>
                      /\ run_returned'[c] = <<TRUE, handler_task[c]>>
                      /\ last_result' = handler_task[c]
                 /\ tasks[handler_task[c]] = "failed" =>
                      /\ run_returned'[c] = <<FALSE, 0>>
                      /\ last_result' = last_result
                      /\ sent' = "failed"
                 /\ tasks[handler_task[c]] = "cancelled" =>
                      /\ run_returned'[c] = <<FALSE, 0>>
                      /\ last_result' = last_result
                      /\ sent' = "was cancelled"
            /\ handler_pc[c] = "starting" /\ handler_pc'[c] = "idle" =>
                 /\ run_returned'[c] = <<FALSE, 0>>
                 /\ last_result' = last_result
                 /\ sent' \in {"failed", "OCR grid workflow failed"}]_vars
    /\ [][last_result' # last_result =>
            \E c \in Clients : /\ handler_pc[c] = "awaiting"
                               /\ tasks[handler_task[c]] = "done"
                               /\ run_returned'[c] = <<TRUE, last_result'>>]_vars
    /\ [](\A c \in Clients :
            run_returned[c] # << >> /\ run_returned[c][1] =>
                tasks[run_returned[c][2]] = "done" /\ last_result # 0)

\* a run was cancelled through cancel() after an earlier run had succeeded
CancelledRunReturnedAfterASuccess ==
    \E c \in Clients :
        /\ run_returned[c] = <<FALSE, 0>>
        /\ sent = "was cancelled"
        /\ handler_pc[c] = "idle"
        /\ last_result = 1
        /\ tasks = <<"done", "cancelled">>

-----------------------------------------------------------------------------
\* C26: is_running is true as long as a workflow task started by run_workflow
\* has not completed, also while that workflow calls run_workflow itself, and
\* it is false before any run and once every run_workflow call has returned.
IsRunningWhileAWorkflowIsInFlight ==
    /\ InFlight # {} => is_running
    /\ tasks = << >> => ~is_running
    /\ (\A c \in Clients : handler_pc[c] # "awaiting") => ~is_running

-----------------------------------------------------------------------------
\* C27: every client receives the messages in the order in which they were
\* given to broadcast: a message emitted earlier is never handed to a
\* client's connection after one emitted later.
DeliveredInEmissionOrder ==
    \A c \in Clients :
        \A i, j \in 1..Len(received[c]) : i < j => received[c][i] < received[c][j]

-----------------------------------------------------------------------------
\* C28: the tree parse builds from a grid G is the tree it builds from
\* preprocess(G): every command of the tree is what the parser reads at its
\* row and column in the grid preprocessed a second time, so a second parse
\* and a parse of the preprocessed grid give the same tree; and G itself is
\* changed neither by preprocessing nor by parsing.
ParseOfPreprocessedGridIsTheSame ==
    /\ [][/\ Len(grid') >= Len(grid)
          /\ \A r \in 1..Len(grid) : grid'[r] = grid[r]]_vars
    /\ [](\A id \in 1..Len(nodes) :
            nodes[id] # NoNode =>
                /\ nodes[id].row = id - 1
                /\ nodes[id].col = first_non_empty(preprocess_row(preprocess_row(grid[id])))
                /\ nodes[id].cls =
                       get_command_class(
                           upper(strip(preprocess_row(preprocess_row(grid[id]))
                                           [nodes[id].col + 1])).word)
                /\ nodes[id].args =
                       collect_args(preprocess_row(preprocess_row(grid[id])),
                                    nodes[id].col + 2))
    /\ [](\A id \in 1..Len(nodes) :
            nodes[id] = NoNode /\ parse_state \in {"parsing", "done"} =>
                first_non_empty(preprocess_row(preprocess_row(grid[id]))) = -1)

\* a grid with the alias of MOVE under an IF was parsed
AliasUnderIfParsed ==
    /\ parse_state = "done"
    /\ grid = <<IfRow(0), MoveRow(1)>>
    /\ nodes[2].cls = "MoveCommand"
    /\ nodes[1].nested_commands = <<2>>
    /\ out_commands = <<1>>

-----------------------------------------------------------------------------
\* the cells the alias table is tried on: aliases, canonical names and other
\* words, in every case style, with and without padding
CellsTried ==
    {Cell(w, style, lead, trail) :
        w \in DOMAIN COMMAND_MAPPINGS
              \cup {COMMAND_MAPPINGS[a] : a \in DOMAIN COMMAND_MAPPINGS}
              \cup {"", "if", "jump", "2"},
        style \in {"upper", "lower", "title", "mixed"},
        lead \in 0..1, trail \in 0..1}

\* C29: preprocessing leaves every cell whose trimmed lower-cased text is no
\* alias key unchanged, every canonical name is such a text, and so
\* preprocessing a preprocessed grid changes nothing.
PreprocessIsIdempotent ==
    /\ \A a \in DOMAIN COMMAND_MAPPINGS : COMMAND_MAPPINGS[a] \notin DOMAIN COMMAND_MAPPINGS
    /\ \A cell \in CellsTried
                    \cup UNION {{grid[r][c] : c \in 1..Len(grid[r])} : r \in 1..Len(grid)} :
          /\ cell.word \notin DOMAIN COMMAND_MAPPINGS => preprocess_row(<<cell>>) = <<cell>>
          /\ preprocess_row(preprocess_row(<<cell>>)) = preprocess_row(<<cell>>)
    /\ \A r \in 1..Len(grid) :
          preprocess_row(preprocess_row(grid[r])) = preprocess_row(grid[r])

\* a grid with PEN_ON and MOV was preprocessed and parsed
AliasesPreprocessed ==
    /\ parse_state = "done"
    /\ grid = <<PenDownRow, MoveRow(1)>>
    /\ preprocess_row(grid[1]) # grid[1]
    /\ preprocess_row(grid[2]) # grid[2]
    /\ nodes[1].cls = "PenDownCommand"
    /\ nodes[2].cls = "MoveCommand"
-----------------------------------------------------------------------------
\* the precedence level of a binary operator: 1 for AND and OR, 2 for the
\* comparisons, 3 for + - * /, and 0 for every other token
precedence(token) ==
    CASE token_upper(token) \in {"AND", "OR"} -> 1
      [] token \in {"<", "<=", ">", ">=", "=", "!=", "=="} -> 2
      [] token \in {"+", "-", "*", "/"} -> 3
      [] OTHER -> 0

is_not(token) == token_upper(token) = "NOT"

\* operands joined by binary operators, each operand with any number of NOT
\* in front of it
WellFormedExpression(ts) ==
    /\ ts # << >>
    /\ \A i \in 1..Len(ts) : ~blank(ts[i])
    /\ precedence(ts[1]) = 0
    /\ precedence(ts[Len(ts)]) = 0 /\ ~is_not(ts[Len(ts)])
    /\ \A i \in 1..(Len(ts) - 1) :
          IF precedence(ts[i]) = 0 /\ ~is_not(ts[i])
          THEN precedence(ts[i + 1]) # 0
          ELSE precedence(ts[i + 1]) = 0

\* the tree the rule gives: split at the leftmost operator of the lowest
\* level present, a leading NOT applies when no binary operator is left
RECURSIVE tree_of(_)
tree_of(ts) ==
    LET present == {precedence(ts[i]) : i \in 1..Len(ts)} \ {0}
    IN  IF Len(ts) = 1 THEN ValueParser_parse(ts[1])
        ELSE IF present = {}
        THEN Expression(tree_of(Tail(ts)), "NOT", NoValue)
        ELSE LET lowest == CHOOSE l \in present : \A m \in present : l <= m
                 at == CHOOSE i \in 1..Len(ts) :
                          /\ precedence(ts[i]) = lowest
                          /\ \A j \in 1..(i - 1) : precedence(ts[j]) # lowest
             IN  Expression(tree_of(SubSeq(ts, 1, at - 1)), op_map(ts[at]),
                            tree_of(SubSeq(ts, at + 1, Len(ts))))

\* C30: a well-formed token list is split at the leftmost operator of the
\* lowest precedence level present (AND/OR, then comparisons, then + - * /,
\* NOT binding tightest), so X > 5 AND Y < 10 is (X > 5) AND (Y < 10) and
\* A + B < C is (A + B) < C; and the result is a NOT expression only when
\* the first token is NOT and more tokens follow.
SplitsAtLeftmostLowestPrecedence ==
    /\ WellFormedExpression(tokens) => condition = tree_of(tokens)
    /\ tokens = <<"X", ">", "5", "AND", "Y", "<", "10">> =>
          condition = Expression(
                          Expression(VariableValue("X"), ">", NumberValue(5)),
                          "AND",
                          Expression(VariableValue("Y"), "<", NumberValue(10)))
    /\ tokens = <<"A", "+", "B", "<", "C">> =>
          condition = Expression(
                          Expression(VariableValue("A"), "+", VariableValue("B")),
                          "<",
                          VariableValue("C"))
    /\ condition.op = "NOT" =>
          LET given == SelectSeq(tokens, LAMBDA t : ~blank(t))
          IN  is_not(given[1]) /\ Len(given) > 1
    /\ tokens = <<"NOT">> => condition = VariableValue("NOT")

\* X > 5 AND Y < 10 was parsed into an AND of two comparisons
ConjunctionOfComparisonsParsed ==
    /\ tokens = <<"X", ">", "5", "AND", "Y", "<", "10">>
    /\ condition.op = "AND"
    /\ condition.args[1].op = ">"
    /\ condition.args[2].op = "<"
-----------------------------------------------------------------------------
\* C31: no message given to broadcast at DEBUG level is handed to the
\* connection of any client, whoever is connected and whatever was broadcast
\* before.
DebugIsNeverSent ==
    \A c \in Clients :
        \A i \in 1..Len(received[c]) : emitted[received[c][i]] # "DEBUG"

\* a DEBUG message was broadcast while a client was connected, and that
\* client then received the next, non-DEBUG message only
DebugSkippedThenInfoSent ==
    /\ emitted = <<"DEBUG", "INFO">>
    /\ connected_clients = {1}
    /\ received[1] = <<2>>
-----------------------------------------------------------------------------
\* the texts written in the non-empty cells of a row, left to right
written(row) ==
    LET filled == SelectSeq(row, non_empty)
    IN  [i \in 1..Len(filled) |-> text(strip(filled[i]))]

\* where the condition starts in a row of the form WAIT | WHILE | condition,
\* MOVE | WHILE | condition or TURN | LEFT or RIGHT | WHILE | condition;
\* 0 for any other row
condition_from(ws) ==
    CASE /\ Len(ws) >= 3
         /\ token_upper(ws[1]) \in {"WAIT", "MOVE"}
         /\ token_upper(ws[2]) = "WHILE" -> 3
      [] /\ Len(ws) >= 4
         /\ token_upper(ws[1]) = "TURN"
         /\ token_upper(ws[2]) \in {"LEFT", "RIGHT"}
         /\ token_upper(ws[3]) = "WHILE" -> 4
      [] OTHER -> 0

\* C32: a row written as WAIT | WHILE | condition, MOVE | WHILE | condition
\* or TURN | LEFT or RIGHT | WHILE | condition parses into the WAIT, MOVE or
\* TURN command whose while_condition is the parsed condition.
WhileModifierRowsKeepTheirCondition ==
    grid # << >> =>
        LET ws == written(grid[1])
            from == condition_from(ws)
            cond == parse_tokens(SubSeq(ws, from, Len(ws)))
        IN  from # 0 /\ cond # NoValue =>
                /\ parse_state # "Bad arguments"
                /\ nodes[1].cls = CASE token_upper(ws[1]) = "WAIT" -> "WaitCommand"
                                    [] token_upper(ws[1]) = "MOVE" -> "MoveCommand"
                                    [] OTHER -> "TurnCommand"
                /\ condition = cond
-----------------------------------------------------------------------------
\* C33: a MOVE row without an argument moves by the default distance 999:
\* when the MOVE of a grid whose MOVE rows have no argument is executed, the
\* distance handed to context.move is 999.
MoveWithoutArgumentMovesBy999 ==
    [][(/\ ExecMove
        /\ \E id \in 1..Len(nodes) : nodes[id].cls = "MoveCommand"
        /\ \A id \in 1..Len(nodes) :
              nodes[id].cls = "MoveCommand" => nodes[id].args = << >>)
       => to_number(evaluate(Cur.val, variables)) = 999]_vars

-----------------------------------------------------------------------------
(* C34: whenever a stop command is handled after a run command was         *)
(* accepted and before the last workflow of that run has finished - also   *)
(* while run_workflow is still sending its "Starting" message - the run is *)
(* cancelled: no workflow of that run starts afterwards and the run does   *)
(* not end with a success result.                                          *)

NoWorkflowStartsAfterStop ==
    [][\A c \in Clients : CreateTask(c) => ~stop_seen[c]]_vars

StoppedRunHasNoSuccess ==
    \A c \in Clients :
        stop_seen[c] /\ run_returned[c] # << >> => ~run_returned[c][1]

StopCancelsTheRun ==
    /\ NoWorkflowStartsAfterStop
    /\ []StoppedRunHasNoSuccess

-----------------------------------------------------------------------------
(* C35: a stop message sent on the connection that issued the run is       *)
(* dispatched to the command processor while the run's workflow is still   *)
(* in progress: the handler of that connection can take its stop command   *)
(* while it awaits the workflow task.                                      *)

SameConnectionStopIsDispatchedDuringRun ==
    \A c \in Clients :
        (handler_pc[c] = "awaiting" /\ tasks[handler_task[c]] = "pending")
            => ENABLED HandleStop(c)

-----------------------------------------------------------------------------
(* C36: execute_program returns its "Program executed successfully" reply  *)
(* only when the result of the engine workflow has success = true; a       *)
(* program that failed to parse or ended in a fatal runtime error is       *)
(* reported with the failure reply.                                        *)

ProgramFailedToRun ==
    \/ parse_state \notin {"parsing", "done", "not parsed"}
    \/ status = "raised"

-----------------------------------------------------------------------------
\* operands joined by binary operators that are all of one precedence level
ChainOfOneLevel(ts) ==
    /\ Len(ts) >= 3
    /\ Len(ts) % 2 = 1
    /\ precedence(ts[2]) # 0
    /\ \A i \in 1..Len(ts) :
          IF i % 2 = 1
          THEN precedence(ts[i]) = 0 /\ ~is_not(ts[i]) /\ ~blank(ts[i])
          ELSE precedence(ts[i]) = precedence(ts[2])

\* the tree that groups such a chain to the right
RECURSIVE right_grouped(_)
right_grouped(ts) ==
    IF Len(ts) = 1 THEN ValueParser_parse(ts[1])
    ELSE Expression(ValueParser_parse(ts[1]), op_map(ts[2]),
                    right_grouped(SubSeq(ts, 3, Len(ts))))

\* C37: a chain of binary operators of the same precedence level groups to
\* the right, and * and / do not bind tighter than + and -: a - b - c is
\* parsed as a - (b - c) and a * b + c as a * (b + c).
SameLevelGroupsToTheRight ==
    /\ ChainOfOneLevel(tokens) => condition = right_grouped(tokens)
    /\ tokens = <<"A", "-", "B", "-", "C">> =>
          condition = Expression(VariableValue("A"), "-",
                          Expression(VariableValue("B"), "-", VariableValue("C")))
    /\ tokens = <<"A", "*", "B", "+", "C">> =>
          condition = Expression(VariableValue("A"), "*",
                          Expression(VariableValue("B"), "+", VariableValue("C")))

\* a * b + c was parsed into a product whose right factor is the sum
ProductOfSumParsed ==
    /\ tokens = <<"A", "*", "B", "+", "C">>
    /\ condition.op = "*"
    /\ condition.args[2].op = "+"

-----------------------------------------------------------------------------
\* the frames i and i + 1 of the stack are an IF and, at the same column, the
\* marker of its ELSE
ElseMarkerOnItsIf(i) ==
    /\ scope_stack[i].col = scope_stack[i + 1].col
    /\ nodes[scope_stack[i].id].cls = "IfCommand"
    /\ nodes[scope_stack[i + 1].id].cls = "ElseCommand"

ScopeStackIsOrdered ==
    \A i \in 1..(Len(scope_stack) - 1) :
        \/ scope_stack[i].col < scope_stack[i + 1].col
        \/ ElseMarkerOnItsIf(i)

\* an ELSE marker pushed at the column of the frame below it was bound to
\* that frame
ElseMarkerIsBoundToTheFrameBelow ==
    [][(/\ ParseElseRow
        /\ Len(scope_stack') >= 2
        /\ scope_stack'[Len(scope_stack')].col = scope_stack'[Len(scope_stack') - 1].col)
       => else_if_command' = scope_stack'[Len(scope_stack') - 1].id]_vars

\* C38: after each row processed by GridParser.parse the indentations of the
\* scope stack are non-decreasing from bottom to top, and strictly increasing
\* except that an ELSE marker may sit directly above the IF frame of the
\* same indentation to which it was bound.
ScopeStackIndentationsIncrease ==
    /\ []ScopeStackIsOrdered
    /\ ElseMarkerIsBoundToTheFrameBelow

\* an ELSE marker sits on its IF at the same column, under a deeper frame
ElseMarkerAboveIfAtSameColumn ==
    /\ parse_state = "parsing"
    /\ Len(scope_stack) >= 3
    /\ ElseMarkerOnItsIf(1)
    /\ scope_stack[2].col < scope_stack[3].col

====
